---------------------------- MODULE Spec2Model ----------------------------
(***************************************************************************)
(* A model of the fsm automaton pipeline: regex -> expression tree ->      *)
(* Thompson NFA -> subset construction -> table DFA -> run, and the YAML   *)
(* loader that builds either a DFA directly or an NFA that is determinized.*)
(*                                                                         *)
(* Conventions.  A Rust `char` is its codepoint (a natural number), a      *)
(* `String` is the sequence of its chars, Option<T> is <<>> (None) or      *)
(* <<v>> (Some(v)), a Vec is a sequence (index i of the code is i + 1      *)
(* here), a BTreeSet is a set, a BTreeMap is a function whose DOMAIN is    *)
(* the set of keys present, and a BiMap is a set of <<left, right>> pairs. *)
(***************************************************************************)
EXTENDS Integers, Sequences, FiniteSets, TLC

VARIABLES
    src,              \* the input handed to the entry point
    pc,               \* where the pipeline is: "start", "worklist", "closure", "done", "error"
    nfa,              \* the Nfa under determinization (parser.rs Nfa)
    alphabet,         \* to_dfa: Vec<char> of the alphabet, ascending
    dfa_states,       \* to_dfa: BTreeMap<BTreeSet<usize>, usize>
    worklist,         \* to_dfa: VecDeque<BTreeSet<usize>>
    dfa_transitions,  \* to_dfa: BTreeMap<(usize, usize), usize>
    dfa,              \* the constructed Dfa (dfa.rs Dfa)
    error,            \* <<>> or <<kind>>: the Err the entry point returned
    ran,              \* <<>> or <<[input, result]>>: the last Dfa::run call
    tree,             \* <<>> or <<Result>>: what regex_parser::parse returned
    files,            \* the file system: path -> content, read by load_fsm
    current_path,     \* run_cli: Option<PathBuf> that `reload` reads
    installed,        \* history: <<>> or <<content>> of the last successful load
    cmd,              \* the last command of the interactive loop and its outcome
    closure,          \* epsilon_closure: BTreeSet<usize>, the states found so far
    closure_worklist  \* epsilon_closure: Vec<usize>, the stack `worklist`

\* the locals of epsilon_closure when it is followed step by step
closure_loop == <<closure, closure_worklist>>

\* the variables of the regex parser, of the interactive loop and of the steps of
\* epsilon_closure
shell == <<tree, files, current_path, installed, cmd, closure_loop>>

vars == <<src, pc, nfa, alphabet, dfa_states, worklist, dfa_transitions, dfa, error, ran,
          tree, files, current_path, installed, cmd, closure, closure_worklist>>

-----------------------------------------------------------------------------
(* Bounds of the model.                                                    *)

\* number of states of the NFAs handed directly to to_dfa
NumNfaStates == 3
\* largest number of edges of those NFAs
MaxEdges == 3
\* longest input given to Dfa::run
MaxLen == 3
\* largest number of nodes of the expression trees given to from_regex
MaxExprSize == 5
\* largest number of transition rules listed under one state of a YAML spec
MaxRulesPerState == 2

-----------------------------------------------------------------------------
(* Generic helpers: options, ordered containers, strings.                  *)

None == <<>>
Some(v) == <<v>>
IsSome(o) == o # <<>>
Unwrap(o) == o[1]

Min(S) == CHOOSE m \in S : \A n \in S : m <= n

\* The ascending Vec of a BTreeSet of numbers (BTreeSet iteration order).
RECURSIVE SortedSeq(_)
SortedSeq(S) ==
    IF S = {} THEN <<>>
    ELSE LET m == Min(S) IN <<m>> \o SortedSeq(S \ {m})

\* Rust's `str` ordering: lexicographic by codepoint, a proper prefix first.
RECURSIVE StrLess(_, _)
StrLess(s, t) ==
    IF t = <<>> THEN FALSE
    ELSE IF s = <<>> THEN TRUE
    ELSE IF Head(s) # Head(t) THEN Head(s) < Head(t)
    ELSE StrLess(Tail(s), Tail(t))

\* Vec<&str>::sort over a set of distinct strings.
RECURSIVE SortedStrs(_)
SortedStrs(S) ==
    IF S = {} THEN <<>>
    ELSE LET m == CHOOSE a \in S : \A b \in S \ {a} : StrLess(a, b)
         IN <<m>> \o SortedStrs(S \ {m})

\* [&str]::join(sep)
RECURSIVE Join(_, _)
Join(strs, sep) ==
    IF strs = <<>> THEN <<>>
    ELSE IF Len(strs) = 1 THEN strs[1]
    ELSE strs[1] \o sep \o Join(Tail(strs), sep)

\* Display of a usize in decimal ('0' is codepoint 48).
RECURSIVE Decimal(_)
Decimal(n) ==
    IF n < 10 THEN <<48 + n>> ELSE Decimal(n \div 10) \o <<48 + (n % 10)>>

\* The strings of length at most n over the chars of C.
RECURSIVE StringsUpTo(_, _)
StringsUpTo(C, n) ==
    IF n = 0 THEN {<<>>}
    ELSE LET shorter == StringsUpTo(C, n - 1)
         IN shorter \cup {Append(s, c) : s \in shorter, c \in C}

-----------------------------------------------------------------------------
(* bimap::BiMap<L, R>: a set of pairs, one pair per left and per right.    *)

\* BiMap::insert: pairs sharing the left or the right value are overwritten.
BiInsert(m, l, r) == {p \in m : p[1] # l /\ p[2] # r} \cup {<<l, r>>}

GetByLeft(m, l) ==
    IF \E p \in m : p[1] = l THEN Some((CHOOSE p \in m : p[1] = l)[2]) ELSE None

GetByRight(m, r) ==
    IF \E p \in m : p[2] = r THEN Some((CHOOSE p \in m : p[2] = r)[1]) ELSE None

BiLen(m) == Cardinality(m)

\* iter.enumerate().map(|(i, x)| (x, i)).collect::<BiMap>() over distinct x
EnumerateBiMap(seq) == {<<seq[i], i - 1>> : i \in 1..Len(seq)}

\* BTreeMap::insert
MapInsert(m, k, v) == (k :> v) @@ m

EmptyMap == <<>>

-----------------------------------------------------------------------------
(* parser.rs: Nfa.                                                         *)

\* transitions.entry((from, on)).or_default().insert(to)
AddTransition(transitions, from, on, to) ==
    LET key == <<from, on>>
        old == IF key \in DOMAIN transitions THEN transitions[key] ELSE {}
    IN MapInsert(transitions, key, old \cup {to})

\* Nfa::epsilon_closure: a worklist over the epsilon-edges, starting from `states`.
RECURSIVE EpsilonClosureLoop(_, _, _)
EpsilonClosureLoop(n, found, wl) ==
    IF wl = {} THEN found
    ELSE LET state == CHOOSE s \in wl : TRUE
             dests == IF <<state, None>> \in DOMAIN n.transitions
                      THEN n.transitions[<<state, None>>] ELSE {}
             fresh == dests \ found
         IN EpsilonClosureLoop(n, found \cup fresh, (wl \ {state}) \cup fresh)

\* seeded fault: the closure stops after one epsilon-step
EpsilonClosureOneStep(n, states) ==
    states \cup UNION {n.transitions[key] :
                         key \in {k \in DOMAIN n.transitions : k[1] \in states /\ k[2] = None}}

\* Nfa::epsilon_closure
EpsilonClosure(n, states) == EpsilonClosureLoop(n, states, states)

\* Nfa::move_on_char
\* seeded fault: the edges of every state are followed, not only those of the set
MoveOnCharFromAll(n, states, symbol) ==
    UNION {n.transitions[key] : key \in {k \in DOMAIN n.transitions : k[2] = Some(symbol)}}

MoveOnChar(n, states, symbol) ==
    UNION {n.transitions[<<s, Some(symbol)>>] :
             s \in {q \in states : <<q, Some(symbol)>> \in DOMAIN n.transitions}}


-----------------------------------------------------------------------------
(* parser.rs: Nfa::to_dfa, the subset construction.                        *)

\* '{' ',' '}' and the key of the dead state, "FAILURE"
LBrace == <<123>>
RBrace == <<125>>
Comma == <<44>>
FAILURE == <<70, 65, 73, 76, 85, 82, 69>>

\* seeded fault: the start subset is the start state alone
StartNfaSetNoClosure(n) == {n.start_state}

\* lines 105-109: the start subset gets index 0 and is enqueued
StartNfaSet(n) == EpsilonClosure(n, {n.start_state})

\* seeded fault: a new subset is pushed at the front of the worklist
RECURSIVE ExpandSymbolsPushFront(_, _, _, _, _, _)
ExpandSymbolsPushFront(n, alpha, cur_set, cur_idx, j, st) ==
    IF j > Len(alpha) THEN st
    ELSE
      LET target_nfa_set == EpsilonClosure(n, MoveOnChar(n, cur_set, alpha[j]))
          known == target_nfa_set \in DOMAIN st.dfa_states
          new_idx == Cardinality(DOMAIN st.dfa_states)
      IN IF target_nfa_set = {}
         THEN ExpandSymbolsPushFront(n, alpha, cur_set, cur_idx, j + 1, st)
         ELSE ExpandSymbolsPushFront(n, alpha, cur_set, cur_idx, j + 1,
                [dfa_states |->
                    IF known THEN st.dfa_states
                    ELSE MapInsert(st.dfa_states, target_nfa_set, new_idx),
                 worklist |->
                    IF known THEN st.worklist ELSE <<target_nfa_set>> \o st.worklist,
                 dfa_transitions |->
                    MapInsert(st.dfa_transitions, <<cur_idx, j - 1>>,
                              IF known THEN st.dfa_states[target_nfa_set] ELSE new_idx)])

\* seeded fault: an empty target is registered like any other subset
RECURSIVE ExpandSymbolsKeepEmpty(_, _, _, _, _, _)
ExpandSymbolsKeepEmpty(n, alpha, cur_set, cur_idx, j, st) ==
    IF j > Len(alpha) THEN st
    ELSE
      LET target_nfa_set == EpsilonClosure(n, MoveOnChar(n, cur_set, alpha[j]))
          known == target_nfa_set \in DOMAIN st.dfa_states
          new_idx == Cardinality(DOMAIN st.dfa_states)
      IN ExpandSymbolsKeepEmpty(n, alpha, cur_set, cur_idx, j + 1,
            [dfa_states |->
                IF known THEN st.dfa_states
                ELSE MapInsert(st.dfa_states, target_nfa_set, new_idx),
             worklist |->
                IF known THEN st.worklist ELSE Append(st.worklist, target_nfa_set),
             dfa_transitions |->
                MapInsert(st.dfa_transitions, <<cur_idx, j - 1>>,
                          IF known THEN st.dfa_states[target_nfa_set] ELSE new_idx)])

\* lines 114-133: the body of the `for` over the alphabet, from position j on,
\* for the popped subset cur_set of index cur_idx; st holds the three containers.
RECURSIVE ExpandSymbols(_, _, _, _, _, _)
ExpandSymbols(n, alpha, cur_set, cur_idx, j, st) ==
    IF j > Len(alpha) THEN st
    ELSE
      LET symbol == alpha[j]
          directly_reachable_states == MoveOnChar(n, cur_set, symbol)
          target_nfa_set == EpsilonClosure(n, directly_reachable_states)
      IN IF target_nfa_set = {}
         THEN ExpandSymbols(n, alpha, cur_set, cur_idx, j + 1, st)
         ELSE
           LET known == target_nfa_set \in DOMAIN st.dfa_states
               new_idx == Cardinality(DOMAIN st.dfa_states)
               next_dfa_idx == IF known THEN st.dfa_states[target_nfa_set] ELSE new_idx
               st2 == [dfa_states |->
                          IF known THEN st.dfa_states
                          ELSE MapInsert(st.dfa_states, target_nfa_set, new_idx),
                       worklist |->
                          IF known THEN st.worklist
                          ELSE Append(st.worklist, target_nfa_set),
                       dfa_transitions |->
                          MapInsert(st.dfa_transitions, <<cur_idx, j - 1>>, next_dfa_idx)]
           IN ExpandSymbols(n, alpha, cur_set, cur_idx, j + 1, st2)

\* seeded fault: the dead state is always reserved
AlwaysDeadState(states, transitions, alpha) == TRUE

\* lines 137-146: some (dfa state, symbol) pair has no recorded transition
NeedsDeadState(states, transitions, alpha) ==
    \E i \in 0..(Cardinality(DOMAIN states) - 1), j \in 0..(Len(alpha) - 1) :
        <<i, j>> \notin DOMAIN transitions

\* lines 160-161: the subset registered under index i
SubsetOfIdx(states, i) == CHOOSE S \in DOMAIN states : states[S] = i

\* seeded fault: a subset accepts only when all its states accept
IsAcceptingAll(n, nfa_set) == nfa_set \subseteq n.nfa_accept_states

\* lines 164-167
IsAccepting(n, nfa_set) == nfa_set \cap n.nfa_accept_states # {}

\* lines 170-176: "{k1,...,kn}" from the sorted NFA keys of the subset
NewKey(n, nfa_set) ==
    LET state_keys == SortedStrs({Unwrap(GetByRight(n.nfa_state_keys, id)) : id \in nfa_set})
    IN LBrace \o Join(state_keys, Comma) \o RBrace

\* lines 163-182: the keys inserted for the subsets of index i .. num - 1
RECURSIVE SubsetKeys(_, _, _, _, _)
SubsetKeys(n, states, i, num, keys) ==
    IF i >= num THEN keys
    ELSE SubsetKeys(n, states, i + 1, num,
                    BiInsert(keys, NewKey(n, SubsetOfIdx(states, i)), i))

\* lines 136-209: what to_dfa builds once the worklist has drained
BuildDfa(n, alpha, states, transitions) ==
    LET num_dfa_states == Cardinality(DOMAIN states)
        needs_dead_state == NeedsDeadState(states, transitions, alpha)
        dead_state_idx == IF needs_dead_state THEN Some(num_dfa_states) ELSE None
        with_dead == [k \in DOMAIN transitions \cup
                            (IF needs_dead_state
                             THEN {<<num_dfa_states, j>> : j \in 0..(Len(alpha) - 1)}
                             ELSE {}) |->
                        IF k \in DOMAIN transitions THEN transitions[k] ELSE num_dfa_states]
        total_dfa_states == num_dfa_states + (IF needs_dead_state THEN 1 ELSE 0)
        subset_keys == SubsetKeys(n, states, 0, num_dfa_states, {})
        subset_props == [i \in 1..num_dfa_states |->
                           [label |-> Some(NewKey(n, SubsetOfIdx(states, i - 1))),
                            accept |-> IsAccepting(n, SubsetOfIdx(states, i - 1))]]
        fill == IF IsSome(dead_state_idx) THEN Unwrap(dead_state_idx) ELSE 0
    IN [alphabet |-> EnumerateBiMap(alpha),
        state_keys |-> IF needs_dead_state
                       THEN BiInsert(subset_keys, FAILURE, num_dfa_states)
                       ELSE subset_keys,
        start_state_idx |-> 0,
        accept_states |-> [i \in 1..num_dfa_states |->
                              IsAccepting(n, SubsetOfIdx(states, i - 1))]
                          \o (IF needs_dead_state THEN <<FALSE>> ELSE <<>>),
        transition_table |->
            [k \in 1..(total_dfa_states * Len(alpha)) |->
                LET from == (k - 1) \div Len(alpha)
                    alpha_idx == (k - 1) % Len(alpha)
                IN IF <<from, alpha_idx>> \in DOMAIN with_dead
                   THEN with_dead[<<from, alpha_idx>>] ELSE fill],
        state_properties |-> subset_props
                             \o (IF needs_dead_state
                                 THEN <<[label |-> Some(FAILURE), accept |-> FALSE]>>
                                 ELSE <<>>)]

\* seeded fault: the worklist is taken from the back
RECURSIVE ToDfaLoopFromBack(_, _, _)
ToDfaLoopFromBack(n, alpha, st) ==
    IF st.worklist = <<>> THEN st
    ELSE ToDfaLoopFromBack(n, alpha,
                           ExpandSymbols(n, alpha, st.worklist[Len(st.worklist)],
                                         st.dfa_states[st.worklist[Len(st.worklist)]], 1,
                                         [st EXCEPT !.worklist =
                                             SubSeq(@, 1, Len(@) - 1)]))

\* lines 111-134: the worklist loop, run until the worklist is empty
RECURSIVE ToDfaLoop(_, _, _)
ToDfaLoop(n, alpha, st) ==
    IF st.worklist = <<>> THEN st
    ELSE ToDfaLoop(n, alpha,
                   ExpandSymbols(n, alpha, Head(st.worklist),
                                 st.dfa_states[Head(st.worklist)], 1,
                                 [st EXCEPT !.worklist = Tail(@)]))

\* lines 136-209 on the containers st left by the worklist loop
BuildFrom(n, alpha, st) == BuildDfa(n, alpha, st.dfa_states, st.dfa_transitions)

\* Nfa::to_dfa as one call
ToDfa(n, alphabet_set) ==
    BuildFrom(n, SortedSeq(alphabet_set),
              ToDfaLoop(n, SortedSeq(alphabet_set),
                        [dfa_states |-> MapInsert(EmptyMap, StartNfaSet(n), 0),
                         worklist |-> <<StartNfaSet(n)>>,
                         dfa_transitions |-> EmptyMap]))

-----------------------------------------------------------------------------
(* dfa.rs: Dfa::run.  The result is [panic, value]: panic is TRUE when an  *)
(* index is out of the bounds of a Vec (Rust panics there).                *)

Returned(b) == [panic |-> FALSE, value |-> b]
Panicked == [panic |-> TRUE, value |-> FALSE]

\* self.accept_states[current_state]
AcceptAt(d, current_state) ==
    IF current_state + 1 \in DOMAIN d.accept_states
    THEN Returned(d.accept_states[current_state + 1]) ELSE Panicked

\* seeded fault: prev_index is not refreshed when a new character is looked up
RECURSIVE RunLoopStaleIndex(_, _, _, _, _, _)
RunLoopStaleIndex(d, input, i, current_state, prev_char, prev_index) ==
    IF i > Len(input) THEN AcceptAt(d, current_state)
    ELSE
      LET c == input[i]
          found == GetByLeft(d.alphabet, c)
      IN IF c # prev_char /\ ~IsSome(found) THEN Returned(FALSE)
         ELSE
           LET alphabet_idx == IF c = prev_char THEN prev_index ELSE Unwrap(found)
               at == (current_state * BiLen(d.alphabet)) + alphabet_idx + 1
           IN IF at \notin DOMAIN d.transition_table THEN Panicked
              ELSE RunLoopStaleIndex(d, input, i + 1, d.transition_table[at], c, prev_index)

\* seeded fault: a character outside the alphabet is skipped
RECURSIVE RunLoopSkipUnknown(_, _, _, _, _, _)
RunLoopSkipUnknown(d, input, i, current_state, prev_char, prev_index) ==
    IF i > Len(input) THEN AcceptAt(d, current_state)
    ELSE
      LET c == input[i]
          found == GetByLeft(d.alphabet, c)
      IN IF ~IsSome(found)
         THEN RunLoopSkipUnknown(d, input, i + 1, current_state, prev_char, prev_index)
         ELSE
           LET at == (current_state * BiLen(d.alphabet)) + Unwrap(found) + 1
           IN IF at \notin DOMAIN d.transition_table THEN Panicked
              ELSE RunLoopSkipUnknown(d, input, i + 1, d.transition_table[at],
                                      c, Unwrap(found))

\* lines 63-79: the loop over the remaining characters, from position i on
RECURSIVE RunLoop(_, _, _, _, _, _)
RunLoop(d, input, i, current_state, prev_char, prev_index) ==
    IF i > Len(input) THEN AcceptAt(d, current_state)
    ELSE
      LET c == input[i]
          alphabet_size == BiLen(d.alphabet)
          found == GetByLeft(d.alphabet, c)
      IN IF c # prev_char /\ ~IsSome(found) THEN Returned(FALSE)
         ELSE
           LET alphabet_idx == IF c = prev_char THEN prev_index ELSE Unwrap(found)
               at == (current_state * alphabet_size) + alphabet_idx + 1
           IN IF at \notin DOMAIN d.transition_table THEN Panicked
              ELSE RunLoop(d, input, i + 1, d.transition_table[at],
                           IF c = prev_char THEN prev_char ELSE c, alphabet_idx)

\* lines 37-80
Run(d, input) ==
    LET current_state == d.start_state_idx
        alphabet_size == BiLen(d.alphabet)
    IN IF input = <<>> THEN AcceptAt(d, current_state)
       ELSE
         LET c == input[1]
             found == GetByLeft(d.alphabet, c)
         IN IF ~IsSome(found) THEN Returned(FALSE)
            ELSE
              LET idx == Unwrap(found)
                  at == (current_state * alphabet_size) + idx + 1
              IN IF at \notin DOMAIN d.transition_table THEN Panicked
                 ELSE RunLoop(d, input, 2, d.transition_table[at], c, idx)

-----------------------------------------------------------------------------
(* regex_parser.rs: Expression, NfaBuilder, expr_to_nfa.                   *)

Epsilon == [tag |-> "Epsilon"]
Literal(c) == [tag |-> "Literal", c |-> c]
Concat(l, r) == [tag |-> "Concat", l |-> l, r |-> r]
Alternate(l, r) == [tag |-> "Alternate", l |-> l, r |-> r]
Star(e) == [tag |-> "Star", e |-> e]

\* NfaBuilder::new
NewBuilder == [transitions |-> EmptyMap, state_counter |-> 0]

\* NfaBuilder::new_state: the state returned is b.state_counter
NewState(b) == [b EXCEPT !.state_counter = @ + 1]

\* NfaBuilder::add_transition
BuilderAdd(b, from, to, on) ==
    [b EXCEPT !.transitions = AddTransition(@, from, on, to)]

\* seeded fault: Star without the edge for zero occurrences
StarEdgesNoSkip(b, start, end, expr_start, expr_end) ==
    BuilderAdd(BuilderAdd(BuilderAdd(b,
        start, expr_start, None),
        expr_end, end, None),
        expr_end, expr_start, None)

\* expr_to_nfa lines 138-141: the four epsilon-edges of Star
StarEdges(b, start, end, expr_start, expr_end) ==
    BuilderAdd(BuilderAdd(BuilderAdd(BuilderAdd(b,
        start, end, None),
        start, expr_start, None),
        expr_end, end, None),
        expr_end, expr_start, None)

\* seeded fault: Alternate without the edge that leaves the right branch
AlternateEdgesNoRightExit(b, start, end, left, right) ==
    BuilderAdd(BuilderAdd(BuilderAdd(b,
        start, left.start, None),
        start, right.start, None),
        left.end, end, None)

\* expr_to_nfa lines 128-131: the four epsilon-edges of Alternate
AlternateEdges(b, start, end, left, right) ==
    BuilderAdd(BuilderAdd(BuilderAdd(BuilderAdd(b,
        start, left.start, None),
        start, right.start, None),
        left.end, end, None),
        right.end, end, None)

\* expr_to_nfa: [b, start, end], the builder afterwards and the returned pair
RECURSIVE ExprToNfa(_, _)
ExprToNfa(expr, b) ==
    IF expr.tag = "Epsilon" THEN
        LET start == b.state_counter
            end == start + 1
        IN [start |-> start, end |-> end,
            b |-> BuilderAdd(NewState(NewState(b)), start, end, None)]
    ELSE IF expr.tag = "Literal" THEN
        LET start == b.state_counter
            end == start + 1
        IN [start |-> start, end |-> end,
            b |-> BuilderAdd(NewState(NewState(b)), start, end, Some(expr.c))]
    ELSE IF expr.tag = "Concat" THEN
        LET left == ExprToNfa(expr.l, b)
            right == ExprToNfa(expr.r, left.b)
        IN [start |-> left.start, end |-> right.end,
            b |-> BuilderAdd(right.b, left.end, right.start, None)]
    ELSE IF expr.tag = "Alternate" THEN
        LET start == b.state_counter
            end == start + 1
            left == ExprToNfa(expr.l, NewState(NewState(b)))
            right == ExprToNfa(expr.r, left.b)
        IN [start |-> start, end |-> end,
            b |-> AlternateEdges(right.b, start, end, left, right)]
    ELSE
        LET start == b.state_counter
            end == start + 1
            inner == ExprToNfa(expr.e, NewState(NewState(b)))
        IN [start |-> start, end |-> end,
            b |-> StarEdges(inner.b, start, end, inner.start, inner.end)]

\* regex_parser.rs lines 73-76: keys "q0", "q1", ... ('q' is codepoint 113)
QKeys(count) == {<<<<113>> \o Decimal(i), i>> : i \in 0..(count - 1)}

\* from_regex lines 68-83: the Nfa of a parsed expression
RegexNfa(expr) ==
    LET built == ExprToNfa(expr, NewBuilder)
    IN [transitions |-> built.b.transitions,
        start_state |-> built.start,
        nfa_accept_states |-> {built.end},
        nfa_state_keys |-> QKeys(built.b.state_counter)]

\* seeded fault: only the least character of the NFA's transitions is kept
RegexAlphabetFirst(n) ==
    LET chars == {Unwrap(key[2]) : key \in {k \in DOMAIN n.transitions : IsSome(k[2])}}
    IN {c \in chars : \A d \in chars : c <= d}

\* from_regex lines 87-91: the characters of the NFA's transitions
RegexAlphabet(n) == {Unwrap(key[2]) : key \in {k \in DOMAIN n.transitions : IsSome(k[2])}}

-----------------------------------------------------------------------------
(* parser.rs: the YAML loader.  A Result is Ok(v) or Err(kind); the kinds  *)
(* name the messages of the code's anyhow! errors.                         *)

Ok(v) == [ok |-> TRUE, v |-> v]
Err(kind) == [ok |-> FALSE, err |-> kind]

\* the `?` operator: `K(r?)`
Try(r, K(_)) == IF r.ok THEN K(r.v) ELSE r

CharsOf(s) == {s[i] : i \in 1..Len(s)}

\* YamlSymbolSpecifier and YamlRangeMap
SpecLiteral(s) == [kind |-> "Literal", s |-> s]
SpecMap(crange, nrange) == [kind |-> "Map", crange |-> crange, nrange |-> nrange]

\* YamlTransitionOn, YamlKeyword and YamlExceptValue
OnSingle(spec) == [kind |-> "Single", spec |-> spec]
OnMultiple(specs) == [kind |-> "Multiple", specs |-> specs]
OnAlphabet == [kind |-> "Keyword", kw |-> "alphabet"]
OnEpsilon == [kind |-> "Keyword", kw |-> "epsilon"]
OnExcept(value) == [kind |-> "Except", except |-> value]
ExceptSingle(spec) == [kind |-> "Single", spec |-> spec]
ExceptMultiple(specs) == [kind |-> "Multiple", specs |-> specs]

\* TransitionTrigger
TriggerChars(chars) == [kind |-> "Chars", chars |-> chars]
TriggerEpsilon == [kind |-> "Epsilon", chars |-> {}]

\* str::split(".."): the pieces between the non-overlapping ".." ('.' is 46)
RECURSIVE SplitDots(_, _)
SplitDots(s, piece) ==
    IF s = <<>> THEN <<piece>>
    ELSE IF Len(s) >= 2 /\ s[1] = 46 /\ s[2] = 46
         THEN <<piece>> \o SplitDots(SubSeq(s, 3, Len(s)), <<>>)
         ELSE SplitDots(Tail(s), Append(piece, Head(s)))

\* the value of a string of ASCII digits ('0' is 48)
RECURSIVE DigitsValue(_, _)
DigitsValue(s, acc) ==
    IF s = <<>> THEN acc ELSE DigitsValue(Tail(s), acc * 10 + (Head(s) - 48))

\* str::parse::<u8> after the sign: one or more digits, at most 255
ParseU8Digits(digits) ==
    IF digits = <<>> \/ \E i \in 1..Len(digits) : digits[i] \notin 48..57 THEN None
    ELSE IF DigitsValue(digits, 0) > 255 THEN None
    ELSE Some(DigitsValue(digits, 0))

\* str::parse::<u8>: an optional '+' (43), then the digits
ParseU8(s) == ParseU8Digits(IF s # <<>> /\ s[1] = 43 THEN Tail(s) ELSE s)

\* to_char_set lines 328-338: the characters from start to end; char::from_u32
\* fails on the surrogates 0xD800..0xDFFF, where the code panics
CRangeChars(start, end) ==
    IF start > end THEN Err("StartGreaterThanEnd")
    ELSE IF start < 55296 /\ end > 57343 THEN Err("Panic")
    ELSE Ok(start..end)

\* to_char_set lines 317-327: the two endpoints of the split range
CRangeParts(parts) ==
    IF Len(parts) # 2 THEN Err("InvalidCharacterRange")
    ELSE IF parts[1] = <<>> THEN Err("EmptyStartInRange")
    ELSE IF parts[2] = <<>> THEN Err("EmptyEndInRange")
    ELSE CRangeChars(parts[1][1], parts[2][1])

\* to_char_set lines 315-339: a character range "X..Y"
CRangeSet(crange) == CRangeParts(SplitDots(crange, <<>>))

\* to_char_set lines 345-362: the digits from start to end
NRangeDigits(start, end) ==
    IF ~IsSome(start) THEN Err("InvalidStartNumber")
    ELSE IF ~IsSome(end) THEN Err("InvalidEndNumber")
    ELSE IF Unwrap(start) > Unwrap(end) THEN Err("StartNumberGreaterThanEnd")
    ELSE IF Unwrap(start) > 9 \/ Unwrap(end) > 9 THEN Err("NumericRangeOutside0To9")
    ELSE Ok({48 + n : n \in Unwrap(start)..Unwrap(end)})

\* to_char_set lines 341-344
NRangeParts(parts) ==
    IF Len(parts) # 2 THEN Err("InvalidNumericRange")
    ELSE NRangeDigits(ParseU8(parts[1]), ParseU8(parts[2]))

\* to_char_set lines 340-363: a numeric range "m..n"
NRangeSet(nrange) == NRangeParts(SplitDots(nrange, <<>>))

\* YamlSymbolSpecifier::to_char_set
ToCharSet(spec) ==
    IF spec.kind = "Literal" THEN Ok(CharsOf(spec.s))
    ELSE Try(IF IsSome(spec.crange) THEN CRangeSet(Unwrap(spec.crange)) ELSE Ok({}),
             LAMBDA c :
               Try(IF IsSome(spec.nrange) THEN NRangeSet(Unwrap(spec.nrange)) ELSE Ok({}),
                   LAMBDA n : Ok(c \cup n)))

\* `for spec in specs { char_set.extend(spec.to_char_set()?) }`
RECURSIVE ExtendCharSets(_, _)
ExtendCharSets(specs, char_set) ==
    IF specs = <<>> THEN Ok(char_set)
    ELSE Try(ToCharSet(Head(specs)),
             LAMBDA chars : ExtendCharSets(Tail(specs), char_set \cup chars))

\* read_alphabet
ReadAlphabet(yaml_alphabet) == ExtendCharSets(yaml_alphabet, {})

\* seeded fault: only the first specifier of an `except` list counts
ExceptCharsFirstOnly(except) ==
    IF except.kind = "Single" THEN ToCharSet(except.spec)
    ELSE IF except.specs = <<>> THEN Ok({})
    ELSE ToCharSet(Head(except.specs))

\* to_transition_trigger lines 416-425: the characters of an `except` value
ExceptChars(except) ==
    IF except.kind = "Single" THEN ToCharSet(except.spec)
    ELSE ExtendCharSets(except.specs, {})

\* YamlTransitionOn::to_transition_trigger
ToTransitionTrigger(on, full_alphabet) ==
    IF on.kind = "Single" THEN
        Try(ToCharSet(on.spec), LAMBDA chars : Ok(TriggerChars(chars)))
    ELSE IF on.kind = "Multiple" THEN
        Try(ExtendCharSets(on.specs, {}), LAMBDA chars : Ok(TriggerChars(chars)))
    ELSE IF on.kind = "Keyword" THEN
        IF on.kw = "alphabet" THEN Ok(TriggerChars(full_alphabet)) ELSE Ok(TriggerEpsilon)
    ELSE
        Try(ExceptChars(on.except),
            LAMBDA except_chars : Ok(TriggerChars(full_alphabet \ except_chars)))

\* Option::ok_or_else
OkOrElse(found, kind) == IF IsSome(found) THEN Ok(Unwrap(found)) ELSE Err(kind)

\* seeded fault: an unknown key resolves to state 0
GetStateIdxOrZero(state_bimap, state_key) ==
    IF IsSome(GetByLeft(state_bimap, state_key))
    THEN Ok(Unwrap(GetByLeft(state_bimap, state_key))) ELSE Ok(0)

\* get_state_idx
GetStateIdx(state_bimap, state_key) ==
    OkOrElse(GetByLeft(state_bimap, state_key), "StateNotFound")

\* get_alphabet_idx
GetAlphabetIdx(alphabet_bimap, c) ==
    OkOrElse(GetByLeft(alphabet_bimap, c), "CharacterNotInAlphabet")

\* BTreeMap<String, _>::keys(): ascending
SortedKeys(map) == SortedStrs(DOMAIN map)

\* seeded fault: an entry that is already set is an error, whatever it holds
SetEntryOnce(table, table_idx, dest_idx) ==
    IF IsSome(table[table_idx]) THEN Err("AmbiguousTransition")
    ELSE Ok([table EXCEPT ![table_idx] = Some(dest_idx)])

\* seeded fault: a later rule overwrites the entry of an earlier one
SetEntryOverwrite(table, table_idx, dest_idx) ==
    Ok([table EXCEPT ![table_idx] = Some(dest_idx)])

\* build_dfa_transitions lines 565-587: the entry at table_idx takes dest_idx
\* unless it already holds another destination
SetEntry(table, table_idx, dest_idx) ==
    IF IsSome(table[table_idx])
    THEN IF Unwrap(table[table_idx]) # dest_idx
         THEN Err("AmbiguousTransition") ELSE Ok(table)
    ELSE Ok([table EXCEPT ![table_idx] = Some(dest_idx)])

\* seeded fault: a character outside the alphabet is left out of the table
RECURSIVE DfaCharsSkipForeign(_, _, _, _, _)
DfaCharsSkipForeign(table, on_chars, src_idx, dest_idx, alphabet_bimap) ==
    IF on_chars = <<>> THEN Ok(table)
    ELSE IF ~IsSome(GetByLeft(alphabet_bimap, Head(on_chars)))
         THEN DfaCharsSkipForeign(table, Tail(on_chars), src_idx, dest_idx, alphabet_bimap)
         ELSE Try(SetEntry(table,
                           src_idx * BiLen(alphabet_bimap)
                               + Unwrap(GetByLeft(alphabet_bimap, Head(on_chars))) + 1,
                           dest_idx),
                  LAMBDA set :
                    DfaCharsSkipForeign(set, Tail(on_chars), src_idx, dest_idx,
                                        alphabet_bimap))

\* seeded fault: the table index is computed column-major
RECURSIVE DfaCharsColumnMajor(_, _, _, _, _)
DfaCharsColumnMajor(table, on_chars, src_idx, dest_idx, alphabet_bimap) ==
    IF on_chars = <<>> THEN Ok(table)
    ELSE Try(GetAlphabetIdx(alphabet_bimap, Head(on_chars)),
             LAMBDA alpha_idx :
               Try(SetEntry(table,
                            alpha_idx * (Len(table) \div BiLen(alphabet_bimap)) + src_idx + 1,
                            dest_idx),
                   LAMBDA set :
                     DfaCharsColumnMajor(set, Tail(on_chars), src_idx, dest_idx,
                                         alphabet_bimap)))

\* build_dfa_transitions lines 560-588: `for c in on_chars`, ascending
RECURSIVE DfaChars(_, _, _, _, _)
DfaChars(table, on_chars, src_idx, dest_idx, alphabet_bimap) ==
    IF on_chars = <<>> THEN Ok(table)
    ELSE Try(GetAlphabetIdx(alphabet_bimap, Head(on_chars)),
             LAMBDA alpha_idx :
               Try(SetEntry(table, src_idx * BiLen(alphabet_bimap) + alpha_idx + 1, dest_idx),
                   LAMBDA set :
                     DfaChars(set, Tail(on_chars), src_idx, dest_idx, alphabet_bimap)))

\* seeded fault: a rule with the epsilon trigger is passed over
DfaTriggerSkipEpsilon(table, trigger, src_idx, dest_idx, alphabet_bimap) ==
    IF trigger.kind = "Epsilon" THEN Ok(table)
    ELSE DfaChars(table, SortedSeq(trigger.chars), src_idx, dest_idx, alphabet_bimap)

\* build_dfa_transitions lines 552-590: the `match` on the trigger of one rule
DfaTrigger(table, trigger, src_idx, dest_idx, alphabet_bimap) ==
    IF trigger.kind = "Epsilon" THEN Err("EpsilonInDfa")
    ELSE DfaChars(table, SortedSeq(trigger.chars), src_idx, dest_idx, alphabet_bimap)

\* build_dfa_transitions lines 548-591: `for mapping in mappings`
RECURSIVE DfaMappings(_, _, _, _, _, _)
DfaMappings(table, mappings, src_idx, state_bimap, full_alphabet_set, alphabet_bimap) ==
    IF mappings = <<>> THEN Ok(table)
    ELSE Try(GetStateIdx(state_bimap, Head(mappings).to),
             LAMBDA dest_idx :
               Try(ToTransitionTrigger(Head(mappings).on, full_alphabet_set),
                   LAMBDA trigger :
                     Try(DfaTrigger(table, trigger, src_idx, dest_idx, alphabet_bimap),
                         LAMBDA filled :
                           DfaMappings(filled, Tail(mappings), src_idx, state_bimap,
                                       full_alphabet_set, alphabet_bimap))))

\* build_dfa_transitions lines 545-592: `for (src_state_key, mappings) in transitions`
RECURSIVE DfaSources(_, _, _, _, _, _)
DfaSources(table, src_keys, transitions, state_bimap, full_alphabet_set, alphabet_bimap) ==
    IF src_keys = <<>> THEN Ok(table)
    ELSE Try(GetStateIdx(state_bimap, Head(src_keys)),
             LAMBDA src_idx :
               Try(DfaMappings(table, transitions[Head(src_keys)], src_idx, state_bimap,
                               full_alphabet_set, alphabet_bimap),
                   LAMBDA filled :
                     DfaSources(filled, Tail(src_keys), transitions, state_bimap,
                                full_alphabet_set, alphabet_bimap)))

\* seeded fault: an unset entry is filled with state 0
FinalTableFillHoles(table) ==
    Ok([i \in 1..Len(table) |-> IF IsSome(table[i]) THEN Unwrap(table[i]) ELSE 0])

\* seeded fault: an unset entry points past the last state
FinalTableDeadIndex(table) ==
    Ok([i \in 1..Len(table) |-> IF IsSome(table[i]) THEN Unwrap(table[i]) ELSE Len(table)])

\* build_dfa_transitions lines 594-617: every entry must have been set
FinalTable(table) ==
    IF \E i \in 1..Len(table) : ~IsSome(table[i]) THEN Err("IncompleteTransitions")
    ELSE Ok([i \in 1..Len(table) |-> Unwrap(table[i])])

\* build_dfa_transitions
BuildDfaTransitions(state_bimap, transitions, full_alphabet_set, alphabet_bimap) ==
    Try(DfaSources([i \in 1..(BiLen(state_bimap) * BiLen(alphabet_bimap)) |-> None],
                   SortedKeys(transitions), transitions, state_bimap,
                   full_alphabet_set, alphabet_bimap),
        FinalTable)

\* Nfa::from_yaml lines 62-67: `for c in chars`; every entry (src_idx, c) gains
\* dest_idx, whatever the order of the characters
NfaChars(transitions, chars, src_idx, dest_idx) ==
    LET keys == {<<src_idx, Some(chars[i])>> : i \in 1..Len(chars)}
    IN [key \in DOMAIN transitions \cup keys |->
          (IF key \in DOMAIN transitions THEN transitions[key] ELSE {})
          \cup (IF key \in keys THEN {dest_idx} ELSE {})]

\* Nfa::from_yaml lines 54-69: the `match` on the trigger of one rule
NfaTrigger(transitions, trigger, src_idx, dest_idx) ==
    IF trigger.kind = "Epsilon"
    THEN AddTransition(transitions, src_idx, None, dest_idx)
    ELSE NfaChars(transitions, SortedSeq(trigger.chars), src_idx, dest_idx)

\* Nfa::from_yaml lines 51-70: `for mapping in mappings`
RECURSIVE NfaMappings(_, _, _, _, _)
NfaMappings(transitions, mappings, src_idx, state_bimap, full_alphabet_set) ==
    IF mappings = <<>> THEN Ok(transitions)
    ELSE Try(GetStateIdx(state_bimap, Head(mappings).to),
             LAMBDA dest_idx :
               Try(ToTransitionTrigger(Head(mappings).on, full_alphabet_set),
                   LAMBDA trigger :
                     NfaMappings(NfaTrigger(transitions, trigger, src_idx, dest_idx),
                                 Tail(mappings), src_idx, state_bimap, full_alphabet_set)))

\* Nfa::from_yaml lines 49-71: `for (src_key, mappings) in yaml_transitions`
RECURSIVE NfaSources(_, _, _, _, _)
NfaSources(transitions, src_keys, yaml_transitions, state_bimap, full_alphabet_set) ==
    IF src_keys = <<>> THEN Ok(transitions)
    ELSE Try(GetStateIdx(state_bimap, Head(src_keys)),
             LAMBDA src_idx :
               Try(NfaMappings(transitions, yaml_transitions[Head(src_keys)], src_idx,
                               state_bimap, full_alphabet_set),
                   LAMBDA added :
                     NfaSources(added, Tail(src_keys), yaml_transitions, state_bimap,
                                full_alphabet_set)))

\* seeded fault: the accepting indices are counted from one
AcceptingIndicesOneBased(state_infos) ==
    {i \in 1..Len(state_infos) : state_infos[i].accept}

\* Nfa::from_yaml lines 43-47: the indices of the accepting states
AcceptingIndices(state_infos) ==
    {i - 1 : i \in {k \in 1..Len(state_infos) : state_infos[k].accept}}

\* Nfa::from_yaml
NfaFromYaml(state_bimap, start_state_idx, state_infos, yaml_transitions, full_alphabet_set) ==
    Try(NfaSources(EmptyMap, SortedKeys(yaml_transitions), yaml_transitions,
                   state_bimap, full_alphabet_set),
        LAMBDA transitions :
          Ok([transitions |-> transitions,
              start_state |-> start_state_idx,
              nfa_accept_states |-> AcceptingIndices(state_infos),
              nfa_state_keys |-> state_bimap]))

\* from_yaml lines 466-473: Vec<StateInfo>, in the order of the keys
StateInfos(states, state_keys) ==
    [i \in 1..Len(state_keys) |->
        [label |-> states[state_keys[i]].label, accept |-> states[state_keys[i]].accept]]

\* from_yaml lines 477-494: the Fsm::Dfa of a spec with `dfa: true`
YamlDfa(y, alphabet_set, alphabet_bimap, state_bimap, state_infos, start_state_index) ==
    Try(BuildDfaTransitions(state_bimap, y.transitions, alphabet_set, alphabet_bimap),
        LAMBDA transition_table :
          Ok([mode |-> "Dfa",
              dfa |-> [alphabet |-> alphabet_bimap,
                       state_keys |-> state_bimap,
                       start_state_idx |-> start_state_index,
                       accept_states |-> [i \in 1..Len(state_infos) |-> state_infos[i].accept],
                       transition_table |-> transition_table,
                       state_properties |-> state_infos]]))

\* from_yaml lines 496-505: the Nfa of a spec with `dfa: false`, handed to to_dfa
\* seeded fault: the characters of the rules are added to the alphabet of to_dfa
YamlNfaWidened(y, alphabet_set, state_bimap, state_infos, start_state_index) ==
    Try(NfaFromYaml(state_bimap, start_state_index, state_infos, y.transitions, alphabet_set),
        LAMBDA n : Ok([mode |-> "Nfa", nfa |-> n,
                       alphabet_set |-> alphabet_set \cup RegexAlphabet(n)]))

YamlNfa(y, alphabet_set, state_bimap, state_infos, start_state_index) ==
    Try(NfaFromYaml(state_bimap, start_state_index, state_infos, y.transitions, alphabet_set),
        LAMBDA n : Ok([mode |-> "Nfa", nfa |-> n, alphabet_set |-> alphabet_set]))

\* from_yaml lines 458-507, with the alphabet read
YamlWithAlphabet(y, alphabet_set, state_bimap, state_infos) ==
    Try(GetStateIdx(state_bimap, y.start_state),
        LAMBDA start_state_index :
          IF y.dfa
          THEN YamlDfa(y, alphabet_set, EnumerateBiMap(SortedSeq(alphabet_set)),
                       state_bimap, state_infos, start_state_index)
          ELSE YamlNfa(y, alphabet_set, state_bimap, state_infos, start_state_index))

\* from_yaml on a deserialized spec: Err(kind), or Ok of the Dfa (`dfa: true`) or
\* of the Nfa and alphabet that go to to_dfa (`dfa: false`)
YamlLoad(y) ==
    Try(ReadAlphabet(y.alphabet),
        LAMBDA alphabet_set :
          YamlWithAlphabet(y, alphabet_set, EnumerateBiMap(SortedKeys(y.states)),
                           StateInfos(y.states, SortedKeys(y.states))))

\* main.rs lines 148-151: the Dfa of a loaded Fsm, the determinized one for Fsm::Nfa
FsmDfa(loaded) ==
    IF loaded.mode = "Dfa" THEN Ok(loaded.dfa)
    ELSE Ok(ToDfa(loaded.nfa, loaded.alphabet_set))

\* from_yaml as one call, to_dfa included: Err(kind) or Ok of the Dfa that runs
FromYaml(y) == Try(YamlLoad(y), FsmDfa)

-----------------------------------------------------------------------------
(* Inputs of the model.                                                    *)

\* the characters 'a' and 'b' of the automata, and 'c', which is in no alphabet
Sigma == {97, 98}
InputChars == Sigma \cup {99}

\* longer inputs for the DFAs of regex texts: `aaaa`, `abab`, `ababa`, `ababab`,
\* `abababa`, `abababab`, `ababac`, `ababba`
LongInputs ==
    {<<97, 97, 97, 97>>,
     <<97, 98, 97, 98>>,
     <<97, 98, 97, 98, 97>>,
     <<97, 98, 97, 98, 97, 98>>,
     <<97, 98, 97, 98, 97, 98, 97>>,
     <<97, 98, 97, 98, 97, 98, 97, 98>>,
     <<97, 98, 97, 98, 97, 99>>,
     <<97, 98, 97, 98, 98, 97>>}

\* inputs for the DFAs of the specs read from YAML nodes: nothing, one letter
\* or one of the digits 0-2, and `aa`
RawInputs == {<<>>, <<97, 97>>} \cup {<<c>> : c \in (97..122) \cup (48..50)}

\* the inputs given to Dfa::run: strings over the alphabet for the NFAs handed
\* directly to to_dfa, and strings that may hold the foreign character otherwise
RunInputs(source) ==
    IF source.kind = "nfa" THEN StringsUpTo(Sigma, MaxLen)
    ELSE IF source.kind = "text" THEN StringsUpTo(InputChars, MaxLen) \cup LongInputs
    ELSE IF source.kind = "raw" THEN RawInputs
    ELSE StringsUpTo(InputChars, MaxLen)

\* the subsets of U with at most k elements
RECURSIVE SubsetsUpTo(_, _)
SubsetsUpTo(U, k) ==
    IF k = 0 THEN {{}}
    ELSE LET smaller == SubsetsUpTo(U, k - 1)
         IN smaller \cup {s \cup {e} : s \in smaller, e \in U}

NfaStateIds == 0..(NumNfaStates - 1)
NfaEdges == {<<from, on, to>> : from \in NfaStateIds,
                                on \in {None} \cup {Some(c) : c \in Sigma},
                                to \in NfaStateIds}

\* the transitions map holding exactly the edges E
TransitionsOf(E) ==
    [key \in {<<e[1], e[2]>> : e \in E} |->
        {e[3] : e \in {x \in E : <<x[1], x[2]>> = key}}]

\* two larger sets of edges: one where both subsets found from the start find a
\* new subset each (0 -a-> 1, 0 -b-> 2, 1 -a-> {0, 1}, 2 -a-> {0, 2}), and one with
\* an epsilon-cycle through all the states, an epsilon self-loop and a character
\* self-loop
ScenarioEdges ==
    {{<<0, Some(97), 1>>, <<0, Some(98), 2>>, <<1, Some(97), 0>>, <<1, Some(97), 1>>,
      <<2, Some(97), 0>>, <<2, Some(97), 2>>},
     {<<0, None, 1>>, <<1, None, 2>>, <<2, None, 0>>, <<0, None, 0>>,
      <<1, Some(97), 1>>, <<2, Some(98), 0>>}}

\* the NFAs handed directly to to_dfa: any edges, any start, any accepting set
DirectNfas ==
    {[transitions |-> TransitionsOf(E),
      start_state |-> s,
      nfa_accept_states |-> acc,
      nfa_state_keys |-> QKeys(NumNfaStates)] :
        E \in SubsetsUpTo(NfaEdges, MaxEdges) \cup ScenarioEdges,
        s \in NfaStateIds, acc \in SUBSET NfaStateIds}

\* the expression trees with exactly k nodes over the literals of Sigma
RECURSIVE ExprsOfSize(_)
ExprsOfSize(k) ==
    IF k = 1 THEN {Epsilon} \cup {Literal(c) : c \in Sigma}
    ELSE {Star(e) : e \in ExprsOfSize(k - 1)}
         \cup UNION {{Concat(l, r) : l \in ExprsOfSize(i), r \in ExprsOfSize(k - 1 - i)}
                     \cup {Alternate(l, r) : l \in ExprsOfSize(i), r \in ExprsOfSize(k - 1 - i)} :
                     i \in 1..(k - 2)}

LitA == Literal(97)
LitB == Literal(98)

\* the trees of `(a|b)*abb`, `(ab)^3` and `a?b+`
ScenarioExprs ==
    {Concat(Concat(Concat(Star(Alternate(LitA, LitB)), LitA), LitB), LitB),
     Concat(Concat(Concat(LitA, LitB), Concat(LitA, LitB)), Concat(LitA, LitB)),
     Concat(Alternate(LitA, Epsilon), Concat(LitB, Star(LitB)))}

\* the expression trees given to from_regex
RegexExprs == UNION {ExprsOfSize(k) : k \in 1..MaxExprSize} \cup ScenarioExprs

\* the state keys "p" and "q" of the YAML specs
KeyP == <<112>>
KeyQ == <<113>>
YamlKeys == {KeyP, KeyQ}

\* alphabet: ["ab"]
YamlAlphabet == <<SpecLiteral(<<97, 98>>)>>

\* the triggers of the rules: `a`, `alphabet`, `{except: a}` and `{crange: a..b}`
YamlTriggers ==
    {OnSingle(SpecLiteral(<<97>>)),
     OnAlphabet,
     OnExcept(ExceptSingle(SpecLiteral(<<97>>))),
     OnSingle(SpecMap(Some(<<97, 46, 46, 98>>), None))}

YamlRules == {[to |-> to, on |-> on] : to \in YamlKeys, on \in YamlTriggers}

\* the sequences of at most n elements of S
RECURSIVE SeqsUpTo(_, _)
SeqsUpTo(S, n) ==
    IF n = 0 THEN {<<>>}
    ELSE LET shorter == SeqsUpTo(S, n - 1)
         IN shorter \cup {Append(q, x) : q \in shorter, x \in S}

\* the `transitions` maps: any subset of the states as sources, each with a list
\* of at most MaxRulesPerState rules
YamlTransitionMaps ==
    UNION {[D -> SeqsUpTo(YamlRules, MaxRulesPerState)] : D \in SUBSET YamlKeys}

StateProps(accept, label) == [accept |-> accept, label |-> label]

\* the declared automaton of a YAML spec
YamlSpec(is_dfa, states, start_state, transitions) ==
    [dfa |-> is_dfa, states |-> states, alphabet |-> YamlAlphabet,
     start_state |-> start_state, transitions |-> transitions]

\* specs that vary the transition rules, with q the only accepting state
YamlRuleSpecs ==
    {YamlSpec(is_dfa,
              (KeyP :> StateProps(FALSE, None)) @@ (KeyQ :> StateProps(TRUE, None)),
              KeyP, t) :
        is_dfa \in BOOLEAN, t \in YamlTransitionMaps}

\* a total deterministic table and a partial one
TotalRules ==
    (KeyP :> <<[to |-> KeyQ, on |-> OnAlphabet]>>)
    @@ (KeyQ :> <<[to |-> KeyP, on |-> OnSingle(SpecLiteral(<<97>>))],
                  [to |-> KeyQ, on |-> OnExcept(ExceptSingle(SpecLiteral(<<97>>)))]>>)
PartialRules == (KeyP :> <<[to |-> KeyP, on |-> OnSingle(SpecLiteral(<<97>>))]>>)

\* specs that vary the accept flags, the labels (none or "FAILURE") and the start
YamlPropSpecs ==
    {YamlSpec(is_dfa,
              (KeyP :> StateProps(ap, lp)) @@ (KeyQ :> StateProps(aq, lq)),
              start, t) :
        is_dfa \in BOOLEAN, ap \in BOOLEAN, aq \in BOOLEAN,
        lp \in {None, Some(FAILURE)}, lq \in {None, Some(FAILURE)},
        start \in YamlKeys, t \in {TotalRules, PartialRules}}

\* a key that no spec declares: "r"
KeyR == <<114>>

\* rules with the epsilon trigger, with a trigger that holds the character c,
\* which is outside the alphabet (`c` and `{crange: a..c}`), or to the undeclared r
EdgeRules ==
    {[to |-> to, on |-> on] :
        to \in YamlKeys,
        on \in {OnEpsilon,
                OnSingle(SpecLiteral(<<99>>)),
                OnSingle(SpecMap(Some(<<97, 46, 46, 99>>), None))}}
    \cup {[to |-> KeyR, on |-> OnAlphabet]}

\* the rule lists of p that hold one rule of EdgeRules, alone or beside another rule
EdgeRuleLists ==
    {<<e>> : e \in EdgeRules}
    \cup {<<e, r>> : e \in EdgeRules, r \in YamlRules}
    \cup {<<r, e>> : e \in EdgeRules, r \in YamlRules}

\* `transitions` maps with an undeclared source key, with and without rules
UnknownSourceRules ==
    {(KeyR :> rules) @@ TotalRules : rules \in {<<>>, <<[to |-> KeyP, on |-> OnAlphabet]>>}}

\* specs at the edges of the format: q accepts and loops on the whole alphabet
YamlEdgeSpecs ==
    {YamlSpec(is_dfa,
              (KeyP :> StateProps(FALSE, None)) @@ (KeyQ :> StateProps(TRUE, None)),
              start, t) :
        is_dfa \in BOOLEAN,
        start \in {KeyP},
        t \in {(KeyP :> rules) @@ (KeyQ :> <<[to |-> KeyQ, on |-> OnAlphabet]>>) :
                  rules \in EdgeRuleLists} \cup UnknownSourceRules}
    \cup {YamlSpec(is_dfa,
                   (KeyP :> StateProps(FALSE, None)) @@ (KeyQ :> StateProps(TRUE, None)),
                   KeyR, TotalRules) : is_dfa \in BOOLEAN}

\* a state key that holds the separator of the subset keys: "p,q"
KeyPQ == <<112, 44, 113>>

\* rules of p that lead to p and q on a, and to "p,q" on a or b
CommaRules ==
    {(KeyP :> <<[to |-> KeyP, on |-> OnSingle(SpecLiteral(<<97>>))],
                [to |-> KeyQ, on |-> OnSingle(SpecLiteral(<<97>>))],
                [to |-> KeyPQ, on |-> on]>>)
     @@ (KeyPQ :> rules) :
        on \in {OnSingle(SpecLiteral(<<97>>)), OnSingle(SpecLiteral(<<98>>))},
        rules \in {<<>>, <<[to |-> KeyQ, on |-> OnAlphabet]>>}}

\* specs with the three states p, q and "p,q"
YamlCommaSpecs ==
    {YamlSpec(is_dfa,
              (KeyP :> StateProps(FALSE, None)) @@ (KeyQ :> StateProps(aq, None))
              @@ (KeyPQ :> StateProps(apq, None)),
              KeyP, t) :
        is_dfa \in BOOLEAN, aq \in BOOLEAN, apq \in BOOLEAN, t \in CommaRules}

\* the YAML specs given to from_yaml
YamlSpecs == YamlRuleSpecs \cup YamlPropSpecs \cup YamlEdgeSpecs \cup YamlCommaSpecs

\* no command has been read yet
NoCmd == [kind |-> "none", ok |-> TRUE]

NoNfa == [transitions |-> EmptyMap, start_state |-> 0,
          nfa_accept_states |-> {}, nfa_state_keys |-> {}]
NoDfa == [alphabet |-> {}, state_keys |-> {}, start_state_idx |-> 0,
          accept_states |-> <<>>, transition_table |-> <<>>, state_properties |-> <<>>]

-----------------------------------------------------------------------------
(* The pipeline as a state machine.                                        *)

InitCommon ==
    /\ pc = "start"
    /\ nfa = NoNfa
    /\ alphabet = <<>>
    /\ dfa_states = EmptyMap
    /\ worklist = <<>>
    /\ dfa_transitions = EmptyMap
    /\ dfa = NoDfa
    /\ error = None
    /\ ran = None
    /\ tree = None
    /\ files = EmptyMap
    /\ current_path = None
    /\ installed = None
    /\ cmd = NoCmd
    /\ closure = {}
    /\ closure_worklist = <<>>

\* parser.rs lines 88-109: to_dfa entered with NFA n and alphabet_set
EnterToDfa(n, alphabet_set) ==
    /\ nfa' = n
    /\ alphabet' = SortedSeq(alphabet_set)
    /\ dfa_states' = MapInsert(EmptyMap, StartNfaSet(n), 0)
    /\ worklist' = <<StartNfaSet(n)>>
    /\ dfa_transitions' = EmptyMap
    /\ pc' = "worklist"

\* to_dfa called on an NFA
ToDfaCall ==
    /\ pc = "start"
    /\ src.kind = "nfa"
    /\ EnterToDfa(src.nfa, src.alphabet_set)
    /\ UNCHANGED <<src, dfa, error, ran>>
    /\ UNCHANGED shell

\* parser.rs lines 111-134: one iteration of `while let Some(..) = worklist.pop_front()`
ToDfaExpand ==
    /\ pc = "worklist"
    /\ worklist # <<>>
    /\ LET current_nfa_set == Head(worklist)
           current_dfa_idx == dfa_states[current_nfa_set]
           st == ExpandSymbols(nfa, alphabet, current_nfa_set, current_dfa_idx, 1,
                               [dfa_states |-> dfa_states,
                                worklist |-> Tail(worklist),
                                dfa_transitions |-> dfa_transitions])
       IN /\ dfa_states' = st.dfa_states
          /\ worklist' = st.worklist
          /\ dfa_transitions' = st.dfa_transitions
    /\ UNCHANGED <<src, pc, nfa, alphabet, dfa, error, ran>>
    /\ UNCHANGED shell

\* parser.rs lines 136-209: the worklist has drained, the Dfa is built and returned
ToDfaFinish ==
    /\ pc = "worklist"
    /\ worklist = <<>>
    /\ dfa' = BuildDfa(nfa, alphabet, dfa_states, dfa_transitions)
    /\ pc' = "done"
    /\ UNCHANGED <<src, nfa, alphabet, dfa_states, worklist, dfa_transitions, error, ran>>
    /\ UNCHANGED shell

\* dfa.rs lines 37-80: one call of Dfa::run on the constructed DFA
RunCall ==
    /\ pc = "done"
    /\ ran = None
    /\ \E input \in RunInputs(src) :
          ran' = Some([input |-> input, result |-> Run(dfa, input)])
    /\ UNCHANGED <<src, pc, nfa, alphabet, dfa_states, worklist, dfa_transitions, dfa, error>>
    /\ UNCHANGED shell

\* to_dfa on the NFAs of DirectNfas, then run
InitNfa ==
    /\ src \in {[kind |-> "nfa", nfa |-> n, alphabet_set |-> Sigma] : n \in DirectNfas}
    /\ InitCommon

NextNfa == ToDfaCall \/ ToDfaExpand \/ ToDfaFinish \/ RunCall

SpecNfa == InitNfa /\ [][NextNfa]_vars

\* regex_parser.rs lines 63-100: from_regex on a parsed expression, up to the
\* point where to_dfa has registered the start subset
FromRegex ==
    /\ pc = "start"
    /\ src.kind = "regex"
    /\ EnterToDfa(RegexNfa(src.expr), RegexAlphabet(RegexNfa(src.expr)))
    /\ UNCHANGED <<src, dfa, error, ran>>
    /\ UNCHANGED shell

\* to_dfa alone on the NFAs of DirectNfas
NextToDfa == ToDfaCall \/ ToDfaExpand \/ ToDfaFinish

SpecToDfa == InitNfa /\ [][NextToDfa]_vars

\* seeded fault: no destination is pushed
PushedDestsNone(state, epsilon_dests, found) == {}

\* seeded fault: a state that points to itself is pushed again
PushedDestsOrSelf(state, epsilon_dests, found) ==
    (epsilon_dests \ found) \cup (epsilon_dests \cap {state})

\* epsilon_closure lines 219-223: the destinations that `closure.insert(dest)` finds
\* new, which are pushed
PushedDests(state, epsilon_dests, found) == epsilon_dests \ found

\* epsilon_closure lines 214-215: called on the NFA n with the set `states`
EpsilonClosureCall ==
    /\ pc = "start"
    /\ src.kind = "closure"
    /\ nfa' = src.nfa
    /\ closure' = src.states
    /\ closure_worklist' = SortedSeq(src.states)
    /\ pc' = "closure"
    /\ UNCHANGED <<src, alphabet, dfa_states, worklist, dfa_transitions, dfa, error, ran>>
    /\ UNCHANGED <<tree, files, current_path, installed, cmd>>

\* epsilon_closure lines 216-224: one turn of `while let Some(state) = worklist.pop()`
EpsilonClosureStep ==
    /\ pc = "closure"
    /\ closure_worklist # <<>>
    /\ LET state == closure_worklist[Len(closure_worklist)]
           epsilon_dests == IF <<state, None>> \in DOMAIN nfa.transitions
                            THEN nfa.transitions[<<state, None>>] ELSE {}
           pushed == PushedDests(state, epsilon_dests, closure)
       IN /\ closure' = closure \cup epsilon_dests
          /\ closure_worklist' =
                SubSeq(closure_worklist, 1, Len(closure_worklist) - 1) \o SortedSeq(pushed)
    /\ UNCHANGED <<src, pc, nfa, alphabet, dfa_states, worklist, dfa_transitions, dfa,
                   error, ran>>
    /\ UNCHANGED <<tree, files, current_path, installed, cmd>>

\* epsilon_closure line 225: the stack is empty, `closure` is returned
EpsilonClosureReturn ==
    /\ pc = "closure"
    /\ closure_worklist = <<>>
    /\ pc' = "done"
    /\ UNCHANGED <<src, nfa, alphabet, dfa_states, worklist, dfa_transitions, dfa,
                   error, ran>>
    /\ UNCHANGED shell

\* epsilon_closure on every set of states of the NFAs of DirectNfas (the start and
\* the accepting states play no part in it)
ClosureCalls ==
    {[kind |-> "closure", nfa |-> n, states |-> S] :
        n \in {d \in DirectNfas : d.start_state = 0 /\ d.nfa_accept_states = {}},
        S \in SUBSET NfaStateIds}

\* to_dfa on the NFAs of DirectNfas without accepting states (they play no part
\* in the loops), and epsilon_closure alone; a call that has begun runs on: the loops of the code are
\* not interrupted, so a step that can be taken is taken
InitTermination ==
    /\ src \in {[kind |-> "nfa", nfa |-> n, alphabet_set |-> Sigma] :
                  n \in {d \in DirectNfas : d.nfa_accept_states = {}}}
               \cup ClosureCalls
    /\ InitCommon

NextTermination ==
    \/ ToDfaCall
    \/ ToDfaExpand
    \/ ToDfaFinish
    \/ EpsilonClosureCall
    \/ EpsilonClosureStep
    \/ EpsilonClosureReturn

SpecTermination ==
    /\ InitTermination
    /\ [][NextTermination]_vars
    /\ WF_vars(ToDfaCall)
    /\ WF_vars(ToDfaExpand)
    /\ WF_vars(ToDfaFinish)
    /\ WF_vars(EpsilonClosureCall)
    /\ WF_vars(EpsilonClosureStep)
    /\ WF_vars(EpsilonClosureReturn)

\* from_regex on the trees of RegexExprs, then run
InitRegex ==
    /\ src \in {[kind |-> "regex", expr |-> e] : e \in RegexExprs}
    /\ InitCommon

NextRegex == FromRegex \/ ToDfaExpand \/ ToDfaFinish \/ RunCall

SpecRegex == InitRegex /\ [][NextRegex]_vars

\* from_yaml line 508 and the `?` exits: r is returned as an error
ReturnErr(r) ==
    /\ ~r.ok
    /\ error' = Some(r.err)
    /\ pc' = "error"

\* from_yaml lines 477-494: r is returned as Fsm::Dfa
ReturnDfa(r) ==
    /\ r.ok
    /\ r.v.mode = "Dfa"
    /\ dfa' = r.v.dfa
    /\ pc' = "done"

\* from_yaml lines 496-505: the Nfa of r enters to_dfa
ConvertNfa(r) ==
    /\ r.ok
    /\ r.v.mode = "Nfa"
    /\ EnterToDfa(r.v.nfa, r.v.alphabet_set)

\* parser.rs lines 447-508: from_yaml fails
FromYamlError ==
    /\ pc = "start"
    /\ src.kind = "yaml"
    /\ ReturnErr(YamlLoad(src.yaml))
    /\ UNCHANGED <<src, nfa, alphabet, dfa_states, worklist, dfa_transitions, dfa, ran>>
    /\ UNCHANGED shell

\* parser.rs lines 447-494: from_yaml on a spec with `dfa: true`
FromYamlDfa ==
    /\ pc = "start"
    /\ src.kind = "yaml"
    /\ ReturnDfa(YamlLoad(src.yaml))
    /\ UNCHANGED <<src, nfa, alphabet, dfa_states, worklist, dfa_transitions, error, ran>>
    /\ UNCHANGED shell

\* parser.rs lines 447-507: from_yaml on a spec with `dfa: false`, up to the
\* point where to_dfa has registered the start subset
FromYamlNfa ==
    /\ pc = "start"
    /\ src.kind = "yaml"
    /\ ConvertNfa(YamlLoad(src.yaml))
    /\ UNCHANGED <<src, dfa, error, ran>>
    /\ UNCHANGED shell

\* the entry points from_regex and from_yaml, then run
Init ==
    /\ src \in {[kind |-> "regex", expr |-> e] : e \in RegexExprs}
               \cup {[kind |-> "yaml", yaml |-> y] : y \in YamlSpecs}
    /\ InitCommon

Next ==
    \/ FromRegex
    \/ FromYamlError
    \/ FromYamlDfa
    \/ FromYamlNfa
    \/ ToDfaExpand
    \/ ToDfaFinish
    \/ RunCall

Spec == Init /\ [][Next]_vars

-----------------------------------------------------------------------------
(* parser.rs, the Deserialize side of from_yaml: the `alphabet` entries    *)
(* and the `on` values arrive as YAML nodes (a string, a list, a mapping)  *)
(* and serde picks the variant.                                            *)

NStr(s) == [node |-> "str", s |-> s]
NSeq(items) == [node |-> "seq", items |-> items]
NMap(fields) == [node |-> "map", fields |-> fields]

\* the words `alphabet` and `epsilon`
AlphabetWord == <<97, 108, 112, 104, 97, 98, 101, 116>>
EpsilonWord == <<101, 112, 115, 105, 108, 111, 110>>

\* lines 370-376: an Option<String> field of YamlRangeMap, None when absent
RangeField(fields, name) ==
    IF name \notin DOMAIN fields THEN Ok(None)
    ELSE IF fields[name].node = "str" THEN Ok(Some(fields[name].s))
    ELSE Err("Yaml")

\* lines 370-376: YamlRangeMap from a mapping; other fields are ignored
DeserializeRangeMap(fields) ==
    Try(RangeField(fields, "crange"),
        LAMBDA crange :
          Try(RangeField(fields, "nrange"), LAMBDA nrange : Ok(SpecMap(crange, nrange))))

\* lines 268-303: YamlSymbolSpecifier has visit_str and visit_map only
DeserializeSpecifier(n) ==
    IF n.node = "str" THEN Ok(SpecLiteral(n.s))
    ELSE IF n.node = "map" THEN DeserializeRangeMap(n.fields)
    ELSE Err("Yaml")

\* Vec<YamlSymbolSpecifier> from the items of a list
RECURSIVE DeserializeSpecifiers(_)
DeserializeSpecifiers(items) ==
    IF items = <<>> THEN Ok(<<>>)
    ELSE Try(DeserializeSpecifier(Head(items)),
             LAMBDA spec :
               Try(DeserializeSpecifiers(Tail(items)), LAMBDA rest : Ok(<<spec>> \o rest)))

DeserializeVec(n) ==
    IF n.node = "seq" THEN DeserializeSpecifiers(n.items) ELSE Err("Yaml")

\* #[serde(untagged)]: the first variant that deserializes
FirstOk(attempts) ==
    IF \E i \in 1..Len(attempts) : attempts[i].ok
    THEN attempts[Min({i \in 1..Len(attempts) : attempts[i].ok})]
    ELSE Err("Yaml")

\* lines 434-439: YamlExceptValue, Single before Multiple
DeserializeExceptValue(n) ==
    FirstOk(<<Try(DeserializeSpecifier(n), LAMBDA spec : Ok(ExceptSingle(spec))),
              Try(DeserializeVec(n), LAMBDA specs : Ok(ExceptMultiple(specs)))>>)

\* line 389: the variant Except { except }
AsExcept(n) ==
    IF n.node = "map" /\ "except" \in DOMAIN n.fields
    THEN Try(DeserializeExceptValue(n.fields["except"]), LAMBDA value : Ok(OnExcept(value)))
    ELSE Err("Yaml")

\* lines 378-384 and 390: the variant Keyword
AsKeyword(n) ==
    IF n.node = "str" /\ n.s = AlphabetWord THEN Ok(OnAlphabet)
    ELSE IF n.node = "str" /\ n.s = EpsilonWord THEN Ok(OnEpsilon)
    ELSE Err("Yaml")

\* lines 386-393: YamlTransitionOn, in the order Except, Keyword, Single, Multiple
DeserializeOn(n) ==
    FirstOk(<<AsExcept(n),
              AsKeyword(n),
              Try(DeserializeSpecifier(n), LAMBDA spec : Ok(OnSingle(spec))),
              Try(DeserializeVec(n), LAMBDA specs : Ok(OnMultiple(specs)))>>)

\* lines 441-445: the rules of one source state
DeserializeRules(rules) ==
    [i \in 1..Len(rules) |-> [to |-> rules[i].to, on |-> DeserializeOn(rules[i].on).v]]

\* line 448: serde_yaml::from_str::<YamlDFA> on the nodes of a document
DeserializeSpec(raw) ==
    IF \/ ~DeserializeSpecifiers(raw.alphabet).ok
       \/ \E k \in DOMAIN raw.transitions : \E i \in 1..Len(raw.transitions[k]) :
             ~DeserializeOn(raw.transitions[k][i].on).ok
    THEN Err("Yaml")
    ELSE Ok([dfa |-> raw.dfa,
             states |-> raw.states,
             alphabet |-> DeserializeSpecifiers(raw.alphabet).v,
             start_state |-> raw.start_state,
             transitions |-> [k \in DOMAIN raw.transitions |->
                                DeserializeRules(raw.transitions[k])]])

\* from_yaml lines 447-507 on the nodes of a document
LoadNodes(raw) == Try(DeserializeSpec(raw), YamlLoad)

\* the nodes {crange: s}, {nrange: s}, {crange: c, nrange: n} and {except: n}
CRangeNode(s) == NMap("crange" :> NStr(s))
NRangeNode(s) == NMap("nrange" :> NStr(s))
BothRangesNode(c, n) == NMap(("crange" :> NStr(c)) @@ ("nrange" :> NStr(n)))
ExceptNode(n) == NMap("except" :> n)

\* the text "X..Y"
DotDot(x, y) == x \o <<46, 46>> \o y

\* elements that resolve: `a`, `xy`, `0`, `alphabet`, a..b, x..z, 0..1, and
\* a..a with 1..2
GoodElements ==
    {NStr(<<97>>), NStr(<<120, 121>>), NStr(<<48>>), NStr(AlphabetWord),
     CRangeNode(DotDot(<<97>>, <<98>>)), CRangeNode(DotDot(<<120>>, <<122>>)),
     NRangeNode(DotDot(<<48>>, <<49>>)),
     BothRangesNode(DotDot(<<97>>, <<97>>), DotDot(<<49>>, <<50>>))}

\* ranges at the edges: b..a, an empty start, an empty end, no `..`, 2..0,
\* 0..10, an empty number, and U+D7FF..U+E000, which spans the surrogates
EdgeRanges ==
    {CRangeNode(DotDot(<<98>>, <<97>>)), CRangeNode(DotDot(<<>>, <<97>>)),
     CRangeNode(DotDot(<<97>>, <<>>)), CRangeNode(<<97>>),
     NRangeNode(DotDot(<<50>>, <<48>>)), NRangeNode(DotDot(<<48>>, <<49, 48>>)),
     NRangeNode(DotDot(<<>>, <<51>>)),
     CRangeNode(DotDot(<<55295>>, <<57344>>))}

ElementNodes == GoodElements \cup EdgeRanges

\* `{except: [x, y]}`
ExceptXY == ExceptNode(NSeq(<<NStr(<<120>>), NStr(<<121>>)>>))

\* the values of `on`: an element, `epsilon`, a list of one or two elements, an
\* exclusion of an element or of such a list, and three shapes serde refuses or
\* reads as an empty range record
OnNodes ==
    ElementNodes
    \cup {NStr(EpsilonWord)}
    \cup {NSeq(<<e>>) : e \in ElementNodes}
    \cup {NSeq(<<e, f>>) : e \in ElementNodes, f \in ElementNodes}
    \cup {ExceptNode(e) : e \in ElementNodes}
    \cup {ExceptNode(NSeq(<<e, f>>)) : e \in ElementNodes, f \in ElementNodes}
    \cup {NSeq(<<NSeq(<<NStr(<<97>>)>>)>>), ExceptNode(ExceptNode(NStr(<<97>>))),
          NMap("crange" :> NSeq(<<>>))}
    \cup {ExceptXY}

\* the alphabets `ab`, a..z, and `ab` with 0..2
GoodAlphabets ==
    {<<NStr(<<97, 98>>)>>,
     <<CRangeNode(DotDot(<<97>>, <<122>>))>>,
     <<NStr(<<97, 98>>), NRangeNode(DotDot(<<48>>, <<50>>))>>}

\* alphabets with a range at the edges, alone or after `ab`
EdgeAlphabets ==
    {<<e>> : e \in EdgeRanges} \cup {<<NStr(<<97, 98>>), e>> : e \in EdgeRanges}
    \cup {<<NSeq(<<NStr(<<97>>)>>)>>}

\* the rules: p goes to q on the value, q loops on the alphabet; with `rest`, p
\* loops on the exclusion of the value
RawRules(on, rest) ==
    (KeyP :> (<<[to |-> KeyQ, on |-> on]>>
              \o (IF rest THEN <<[to |-> KeyP, on |-> ExceptNode(on)]>> ELSE <<>>)))
    @@ (KeyQ :> <<[to |-> KeyQ, on |-> NStr(AlphabetWord)]>>)

RawSpec(is_dfa, alphabet_nodes, on, rest) ==
    [dfa |-> is_dfa,
     states |-> (KeyP :> StateProps(FALSE, None)) @@ (KeyQ :> StateProps(TRUE, None)),
     alphabet |-> alphabet_nodes,
     start_state |-> KeyP,
     transitions |-> RawRules(on, rest)]

\* the documents given to from_yaml as nodes
RawSpecs ==
    {RawSpec(is_dfa, al, on, rest) :
        is_dfa \in BOOLEAN, al \in GoodAlphabets, on \in OnNodes, rest \in BOOLEAN}
    \cup {RawSpec(is_dfa, al, on, FALSE) :
            is_dfa \in BOOLEAN, al \in EdgeAlphabets,
            on \in {NStr(<<97>>), NStr(AlphabetWord)}}

FromNodesError ==
    /\ pc = "start"
    /\ src.kind = "raw"
    /\ ReturnErr(LoadNodes(src.raw))
    /\ UNCHANGED <<src, nfa, alphabet, dfa_states, worklist, dfa_transitions, dfa, ran>>
    /\ UNCHANGED shell

FromNodesDfa ==
    /\ pc = "start"
    /\ src.kind = "raw"
    /\ ReturnDfa(LoadNodes(src.raw))
    /\ UNCHANGED <<src, nfa, alphabet, dfa_states, worklist, dfa_transitions, error, ran>>
    /\ UNCHANGED shell

FromNodesNfa ==
    /\ pc = "start"
    /\ src.kind = "raw"
    /\ ConvertNfa(LoadNodes(src.raw))
    /\ UNCHANGED <<src, dfa, error, ran>>
    /\ UNCHANGED shell

InitNodes ==
    /\ src \in {[kind |-> "raw", raw |-> y] : y \in RawSpecs}
    /\ InitCommon

NextNodes ==
    \/ FromNodesError
    \/ FromNodesDfa
    \/ FromNodesNfa
    \/ ToDfaExpand
    \/ ToDfaFinish
    \/ RunCall

SpecNodes == InitNodes /\ [][NextNodes]_vars

-----------------------------------------------------------------------------
(* regex_parser.rs: parse, the recursive-descent parser.  `chars` is what  *)
(* the Peekable<Chars> has left; a parser returns the expression and the   *)
(* rest, or an error.                                                      *)

MaxTextLen == 4
MaxCoreLen == 5

LParen == 40
RParen == 41
StarChar == 42
PlusChar == 43
QuestionChar == 63
CaretChar == 94
BarChar == 124
Digits == 48..57

\* char::is_whitespace (the Unicode White_Space property)
WhiteSpace ==
    (9..13) \cup {32, 133, 160, 5760} \cup (8192..8202) \cup {8232, 8233, 8239, 8287, 12288}

Parsed(expr, chars) == Ok([expr |-> expr, rest |-> chars])

\* lines 218-221: the digits at the front of chars
RECURSIVE DigitPrefix(_)
DigitPrefix(chars) ==
    IF chars # <<>> /\ Head(chars) \in Digits
    THEN <<Head(chars)>> \o DigitPrefix(Tail(chars))
    ELSE <<>>

\* the digits of u32::MAX, 4294967295
U32MaxDigits == <<52, 50, 57, 52, 57, 54, 55, 50, 57, 53>>

\* a string of digits without its leading zeros
RECURSIVE Significant(_)
Significant(digits) ==
    IF digits # <<>> /\ Head(digits) = 48 THEN Significant(Tail(digits)) ELSE digits

\* the number written by the digits (no leading zero) is above u32::MAX, where
\* the checked arithmetic of the parse overflows
ExceedsU32(digits) ==
    \/ Len(digits) > Len(U32MaxDigits)
    \/ /\ Len(digits) = Len(U32MaxDigits)
       /\ \E i \in 1..Len(digits) :
             /\ digits[i] > U32MaxDigits[i]
             /\ \A j \in 1..(i - 1) : digits[j] = U32MaxDigits[j]

\* lines 227-229: str::parse::<u32> of a non-empty string of digits
ParseU32(num_str) ==
    IF ExceedsU32(Significant(num_str)) THEN Err("InvalidExponent")
    ELSE Ok(DigitsValue(Significant(num_str), 0))

\* seeded fault: the Star comes first
PlusOfStarFirst(expr) == Concat(Star(expr), expr)

\* lines 205-208: `e+`
PlusOf(expr) == Concat(expr, Star(expr))

\* seeded fault: the empty alternative is missing
OptionalOfNoEpsilon(expr) == Alternate(expr, expr)

\* line 212: `e?`
OptionalOf(expr) == Alternate(expr, Epsilon)

\* seeded fault: the copies nest to the right
RECURSIVE RepeatRightNested(_, _, _)
RepeatRightNested(expr, base_expr, k) ==
    IF k = 0 THEN expr ELSE Concat(base_expr, RepeatRightNested(expr, base_expr, k - 1))

\* lines 237-239: the `for _ in 2..=n` loop with k rounds left
RECURSIVE Repeat(_, _, _)
Repeat(expr, base_expr, k) ==
    IF k = 0 THEN expr ELSE Repeat(Concat(expr, base_expr), base_expr, k - 1)

\* lines 235-240
Power(expr, n) == IF n > 1 THEN Repeat(expr, expr, n - 1) ELSE expr

\* seeded fault: only `)` ends a concatenation
EndsConcatOnlyParen(c) == c = RParen

\* line 184: the characters that end a concatenation
EndsConcat(c) == c = RParen \/ c = BarChar

RECURSIVE ParseAlternate(_), ParseAlternateLoop(_, _), ParseConcat(_), ParseConcatLoop(_, _)
RECURSIVE ParsePostfix(_), ParsePostfixLoop(_, _), ParseExponent(_, _, _), ParseTerm(_)

\* lines 248-265: parse_term
ParseTerm(chars) ==
    IF chars = <<>> THEN Err("UnexpectedEnd")
    ELSE IF Head(chars) = LParen
    THEN LET r == ParseAlternate(Tail(chars))
         IN IF ~r.ok THEN r
            ELSE IF r.v.rest = <<>> \/ Head(r.v.rest) # RParen THEN Err("ExpectedRParen")
            ELSE Parsed(r.v.expr, Tail(r.v.rest))
    ELSE IF Head(chars) = RParen THEN Err("UnexpectedRParen")
    ELSE IF Head(chars) \in {BarChar, StarChar, PlusChar, QuestionChar, CaretChar}
    THEN Err("UnexpectedOperator")
    ELSE Parsed(Literal(Head(chars)), Tail(chars))

\* lines 214-241: the `^` arm, chars being what follows the `^` and num_str the
\* digits at its front
ParseExponent(expr, chars, num_str) ==
    IF num_str = <<>> THEN Err("ExpectedNumber")
    ELSE LET n == ParseU32(num_str)
         IN IF ~n.ok THEN n
            ELSE IF n.v = 0 THEN Err("ZeroExponent")
            ELSE ParsePostfixLoop(Power(expr, n.v), SubSeq(chars, Len(num_str) + 1, Len(chars)))

\* lines 197-245: the `while` loop of parse_postfix
ParsePostfixLoop(expr, chars) ==
    IF chars = <<>> THEN Parsed(expr, chars)
    ELSE IF Head(chars) = StarChar THEN ParsePostfixLoop(Star(expr), Tail(chars))
    ELSE IF Head(chars) = PlusChar THEN ParsePostfixLoop(PlusOf(expr), Tail(chars))
    ELSE IF Head(chars) = QuestionChar THEN ParsePostfixLoop(OptionalOf(expr), Tail(chars))
    ELSE IF Head(chars) = CaretChar
    THEN ParseExponent(expr, Tail(chars), DigitPrefix(Tail(chars)))
    ELSE Parsed(expr, chars)

\* lines 194-246: parse_postfix
ParsePostfix(chars) ==
    LET r == ParseTerm(chars)
    IN IF r.ok THEN ParsePostfixLoop(r.v.expr, r.v.rest) ELSE r

\* lines 183-191: the `while` loop of parse_concat
ParseConcatLoop(left, chars) ==
    IF chars = <<>> \/ EndsConcat(Head(chars)) THEN Parsed(left, chars)
    ELSE LET r == ParsePostfix(chars)
         IN IF r.ok THEN ParseConcatLoop(Concat(left, r.v.expr), r.v.rest) ELSE r

\* lines 179-192: parse_concat
ParseConcat(chars) ==
    LET r == ParsePostfix(chars)
    IN IF r.ok THEN ParseConcatLoop(r.v.expr, r.v.rest) ELSE r

\* lines 171-176: the `while` loop of parse_alternate
ParseAlternateLoop(left, chars) ==
    IF chars = <<>> \/ Head(chars) # BarChar THEN Parsed(left, chars)
    ELSE LET r == ParseConcat(Tail(chars))
         IN IF r.ok THEN ParseAlternateLoop(Alternate(left, r.v.expr), r.v.rest) ELSE r

\* lines 168-177: parse_alternate
ParseAlternate(chars) ==
    LET r == ParseConcat(chars)
    IN IF r.ok THEN ParseAlternateLoop(r.v.expr, r.v.rest) ELSE r

\* lines 153-156: the whitespace is filtered out
Cleaned(raw) == SelectSeq(raw, LAMBDA c : c \notin WhiteSpace)

\* seeded fault: input left over is ignored
WholeInputIgnoreRest(r) == IF ~r.ok THEN r ELSE Ok(r.v.expr)

\* lines 159-165: the expression, or an error when input is left over
WholeInput(r) ==
    IF ~r.ok THEN r
    ELSE IF r.v.rest # <<>> THEN Err("LeftOver")
    ELSE Ok(r.v.expr)

\* lines 148-166: parse
Parse(raw) ==
    IF raw = <<>> THEN Err("Empty") ELSE WholeInput(ParseAlternate(Cleaned(raw)))

\* the characters of the texts: a, b, the metacharacters, three digits, a space
TextChars ==
    {97, 98, LParen, RParen, BarChar, StarChar, PlusChar, QuestionChar, CaretChar,
     48, 49, 50, 32}

\* the characters of the longer texts
CoreChars == {97, 98, LParen, RParen, BarChar, StarChar}

\* `ab|cd`, `a(b|c)d`, `ab*`, `(a(b|c)*)+`, `(ab)^3`, `ababab`, `(a|b)*abb`,
\* `a? b+`, `a^4294967296` (one past u32::MAX), `(a|b`
ScenarioTexts ==
    {<<97, 98, 124, 99, 100>>,
     <<97, 40, 98, 124, 99, 41, 100>>,
     <<97, 98, 42>>,
     <<40, 97, 40, 98, 124, 99, 41, 42, 41, 43>>,
     <<40, 97, 98, 41, 94, 51>>,
     <<97, 98, 97, 98, 97, 98>>,
     <<40, 97, 124, 98, 41, 42, 97, 98, 98>>,
     <<97, 63, 32, 98, 43>>,
     <<97, 94, 52, 50, 57, 52, 57, 54, 55, 50, 57, 54>>,
     <<40, 97, 124, 98>>}

\* the texts given to from_regex
RegexTexts ==
    StringsUpTo(TextChars, MaxTextLen) \cup StringsUpTo(CoreChars, MaxCoreLen)
    \cup ScenarioTexts

\* from_regex line 65: `parse(regex)?` returns the error
FromRegexError ==
    /\ pc = "start"
    /\ src.kind = "text"
    /\ ~Parse(src.text).ok
    /\ error' = Some(Parse(src.text).err)
    /\ pc' = "error"
    /\ UNCHANGED <<src, nfa, alphabet, dfa_states, worklist, dfa_transitions, dfa, ran>>
    /\ UNCHANGED shell

\* from_regex lines 65-95: the text is parsed and to_dfa is entered on its NFA
EnterWithTree(expr) ==
    /\ tree' = Some(expr)
    /\ EnterToDfa(RegexNfa(expr), RegexAlphabet(RegexNfa(expr)))

FromRegexText ==
    /\ pc = "start"
    /\ src.kind = "text"
    /\ Parse(src.text).ok
    /\ EnterWithTree(Parse(src.text).v)
    /\ UNCHANGED <<src, dfa, error, ran, files, current_path, installed, cmd, closure_loop>>

InitParse ==
    /\ src \in {[kind |-> "text", text |-> t] : t \in RegexTexts}
    /\ InitCommon

NextParse == FromRegexError \/ FromRegexText \/ ToDfaExpand \/ ToDfaFinish \/ RunCall

SpecParse == InitParse /\ [][NextParse]_vars

-----------------------------------------------------------------------------
(* main.rs: run_cli, the interactive loop.  `dfa` is the Dfa of the active *)
(* fsm; a file is missing, not a YAML spec, or a YAML spec.                *)

\* the paths of the model
Paths == {"f", "g"}

FileMissing == [kind |-> "missing"]
FileGarbage == [kind |-> "garbage"]
FileYaml(y) == [kind |-> "yaml", yaml |-> y]

\* a DFA-mode spec that loads: p -a,b-> q, q -a-> p, q -b-> q, q accepts
GoodDfaYaml ==
    YamlSpec(TRUE, (KeyP :> StateProps(FALSE, None)) @@ (KeyQ :> StateProps(TRUE, None)),
             KeyP, TotalRules)

\* an NFA-mode spec that loads: p -a-> p, p accepts
GoodNfaYaml ==
    YamlSpec(FALSE, (KeyP :> StateProps(TRUE, None)) @@ (KeyQ :> StateProps(FALSE, None)),
             KeyP, PartialRules)

\* a DFA-mode spec that does not load: its table has holes
BadDfaYaml ==
    YamlSpec(TRUE, (KeyP :> StateProps(TRUE, None)) @@ (KeyQ :> StateProps(FALSE, None)),
             KeyP, PartialRules)

\* what a path can hold
FileContents ==
    {FileMissing, FileGarbage, FileYaml(GoodDfaYaml), FileYaml(GoodNfaYaml),
     FileYaml(BadDfaYaml)}

\* the command line: --file <path>, --regex (here the parsed tree), or neither
ReplArgs ==
    {[kind |-> "file", path |-> p] : p \in Paths}
    \cup {[kind |-> "regex", expr |-> Star(LitA)], [kind |-> "none"]}

\* the lines given to run in the loop
ReplInputs == StringsUpTo(InputChars, 2)

\* parser.rs line 448 (serde_yaml::from_str) and the rest of from_yaml
FromYamlText(content) ==
    IF content.kind = "garbage" THEN Err("Yaml") ELSE FromYaml(content.yaml)

\* main.rs lines 184-191: load_fsm
LoadFsm(fs, path) ==
    IF fs[path].kind = "missing" THEN Err("Io") ELSE FromYamlText(fs[path])

\* regex_parser.rs lines 68-99: from_regex on the parsed tree, to_dfa included
FromRegexTree(expr) == ToDfa(RegexNfa(expr), RegexAlphabet(RegexNfa(expr)))

\* seeded fault: a failed load leaves no automaton
InstallOrDrop(cur, loaded) == IF loaded.ok THEN loaded.v ELSE NoDfa

\* main.rs lines 108-120 and 129-142: `Ok(new_fsm) => fsm = new_fsm`, `Err(e) => eprintln!`
Install(cur, loaded) == IF loaded.ok THEN loaded.v ELSE cur

\* seeded fault: the path is taken over before the load is known to succeed
RepointAlways(cur_path, new_path, loaded) == Some(new_path)

\* main.rs line 132: current_path = Some(new_path), only in the Ok arm
Repoint(cur_path, new_path, loaded) == IF loaded.ok THEN Some(new_path) ELSE cur_path

\* the error reported by a load, if any
Reported(loaded) == IF loaded.ok THEN None ELSE Some(loaded.err)

InitRepl ==
    /\ src \in ReplArgs
    /\ files \in [Paths -> FileContents]
    /\ pc = "args"
    /\ nfa = NoNfa
    /\ alphabet = <<>>
    /\ dfa_states = EmptyMap
    /\ worklist = <<>>
    /\ dfa_transitions = EmptyMap
    /\ dfa = NoDfa
    /\ error = None
    /\ ran = None
    /\ tree = None
    /\ current_path = None
    /\ installed = None
    /\ cmd = NoCmd
    /\ closure = {}
    /\ closure_worklist = <<>>

\* what no step of run_cli changes
replFrame == <<src, nfa, alphabet, dfa_states, worklist, dfa_transitions, tree, closure_loop>>

\* main.rs lines 44-45, 57: started with --file, the result of load_fsm is `loaded`
StartWith(loaded) ==
    /\ dfa' = Install(dfa, loaded)
    /\ error' = Reported(loaded)
    /\ pc' = IF loaded.ok THEN "repl" ELSE "exit"
    /\ current_path' = IF loaded.ok THEN Some(src.path) ELSE None
    /\ installed' = IF loaded.ok THEN Some(files[src.path]) ELSE None

ReplStartFile ==
    /\ pc = "args"
    /\ src.kind = "file"
    /\ StartWith(LoadFsm(files, src.path))
    /\ UNCHANGED <<replFrame, files, ran, cmd>>

\* main.rs lines 46-51, 57: started with --regex
ReplStartRegex ==
    /\ pc = "args"
    /\ src.kind = "regex"
    /\ dfa' = FromRegexTree(src.expr)
    /\ installed' = Some([kind |-> "regex", expr |-> src.expr])
    /\ pc' = "repl"
    /\ UNCHANGED <<replFrame, files, ran, cmd, error, current_path>>

\* main.rs lines 52-56: neither --file nor --regex
ReplStartNone ==
    /\ pc = "args"
    /\ src.kind = "none"
    /\ error' = Some("NoInput")
    /\ pc' = "exit"
    /\ UNCHANGED <<replFrame, files, ran, cmd, dfa, current_path, installed>>

\* main.rs lines 106-120: `reload` with a path, the result of load_fsm is `loaded`
ReloadWith(loaded) ==
    /\ dfa' = Install(dfa, loaded)
    /\ error' = Reported(loaded)
    /\ installed' = IF loaded.ok THEN Some(files[Unwrap(current_path)]) ELSE installed
    /\ cmd' = [kind |-> "reload", ok |-> loaded.ok]

\* main.rs lines 105-124: the line `reload`
ReplReload ==
    /\ pc = "repl"
    /\ \/ /\ IsSome(current_path)
          /\ ReloadWith(LoadFsm(files, Unwrap(current_path)))
       \/ /\ ~IsSome(current_path)
          /\ error' = Some("NoFileToReload")
          /\ cmd' = [kind |-> "reload", ok |-> FALSE]
          /\ UNCHANGED <<dfa, installed>>
    /\ UNCHANGED <<replFrame, files, ran, pc, current_path>>

\* main.rs lines 126-142: `load <path>`, the result of load_fsm is `loaded`
LoadWith(new_path, loaded) ==
    /\ dfa' = Install(dfa, loaded)
    /\ current_path' = Repoint(current_path, new_path, loaded)
    /\ error' = Reported(loaded)
    /\ installed' = IF loaded.ok THEN Some(files[new_path]) ELSE installed
    /\ cmd' = [kind |-> "load", ok |-> loaded.ok]

\* main.rs lines 125-146: the line `load <path>`
ReplLoad ==
    /\ pc = "repl"
    /\ \E new_path \in Paths : LoadWith(new_path, LoadFsm(files, new_path))
    /\ UNCHANGED <<replFrame, files, ran, pc>>

\* seeded fault: run leaves the automaton in the state reached by the first character
ReplRunMovesStart ==
    /\ pc = "repl"
    /\ \E input \in ReplInputs :
          /\ ran' = Some([input |-> input, result |-> Run(dfa, input)])
          /\ dfa' = IF input # <<>> /\ IsSome(GetByLeft(dfa.alphabet, input[1]))
                    THEN [dfa EXCEPT !.start_state_idx =
                             dfa.transition_table[@ * BiLen(dfa.alphabet)
                                 + Unwrap(GetByLeft(dfa.alphabet, input[1])) + 1]]
                    ELSE dfa
    /\ cmd' = [kind |-> "run", ok |-> TRUE]
    /\ UNCHANGED <<replFrame, files, pc, error, current_path, installed>>

\* main.rs lines 147-160: any other line is run on the active automaton
ReplRun ==
    /\ pc = "repl"
    /\ \E input \in ReplInputs :
          ran' = Some([input |-> input, result |-> Run(dfa, input)])
    /\ cmd' = [kind |-> "run", ok |-> TRUE]
    /\ UNCHANGED <<replFrame, files, pc, dfa, error, current_path, installed>>

\* main.rs lines 104, 163-176: `exit`, `quit`, Ctrl-C, Ctrl-D or a readline error
ReplExit ==
    /\ pc = "repl"
    /\ pc' = "exit"
    /\ cmd' = [kind |-> "exit", ok |-> TRUE]
    /\ UNCHANGED <<replFrame, files, ran, dfa, error, current_path, installed>>

\* the environment rewrites, creates or removes a file between two commands
ReplEdit ==
    /\ pc = "repl"
    /\ \E p \in Paths, c \in FileContents :
          /\ files[p] # c
          /\ files' = [files EXCEPT ![p] = c]
    /\ UNCHANGED <<replFrame, ran, pc, dfa, error, current_path, installed, cmd>>

NextRepl ==
    \/ ReplStartFile
    \/ ReplStartRegex
    \/ ReplStartNone
    \/ ReplReload
    \/ ReplLoad
    \/ ReplRun
    \/ ReplExit
    \/ ReplEdit

SpecRepl == InitRepl /\ [][NextRepl]_vars

-----------------------------------------------------------------------------
(* Reference semantics the claims are stated against.  None of these uses  *)
(* an operator that models the code.                                       *)

\* the edges <<from, on, to>> of an NFA
EdgesOf(n) ==
    UNION {{<<key[1], key[2], to>> : to \in n.transitions[key]} : key \in DOMAIN n.transitions}

\* the configurations <<state, characters read>> reachable from those of `frontier`
\* reading w, added to `seen`
RECURSIVE PathReach(_, _, _, _)
PathReach(E, w, seen, frontier) ==
    IF frontier = {} THEN seen
    ELSE
      LET succ == UNION {
                    {<<e[3], IF e[2] = None THEN c[2] ELSE c[2] + 1>> :
                        e \in {x \in E : /\ x[1] = c[1]
                                         /\ \/ x[2] = None
                                            \/ /\ c[2] < Len(w)
                                               /\ x[2] = Some(w[c[2] + 1])}} :
                    c \in frontier}
      IN PathReach(E, w, seen \cup succ, succ \ seen)

\* the NFA has a path from its start state to an accepting state that reads exactly w
PathAccepts(n, w) ==
    \E c \in PathReach(EdgesOf(n), w, {<<n.start_state, 0>>}, {<<n.start_state, 0>>}) :
        c[2] = Len(w) /\ c[1] \in n.nfa_accept_states

\* the least set that contains S and is closed under the epsilon-edges of n
LeastEpsClosed(n, S) ==
    {c[1] : c \in PathReach({e \in EdgesOf(n) : e[2] = None}, <<>>,
                            {<<s, 0>> : s \in S}, {<<s, 0>> : s \in S})}

\* the targets of the a-edges of the states of S
CharTargets(n, S, a) == {e[3] : e \in {x \in EdgesOf(n) : x[1] \in S /\ x[2] = Some(a)}}

\* the index of the state keyed FAILURE, or None
FailureIdx(d) == GetByLeft(d.state_keys, FAILURE)

\* entry (q, a) of the dense table
TableAt(d, q, a) == d.transition_table[q * BiLen(d.alphabet) + a + 1]

IsStringOver(w, C) == \A i \in 1..Len(w) : w[i] \in C

\* w belongs to the language of the expression e
RECURSIVE Matches(_, _)
Matches(e, w) ==
    IF e.tag = "Epsilon" THEN w = <<>>
    ELSE IF e.tag = "Literal" THEN w = <<e.c>>
    ELSE IF e.tag = "Concat" THEN
        \E k \in 0..Len(w) :
            Matches(e.l, SubSeq(w, 1, k)) /\ Matches(e.r, SubSeq(w, k + 1, Len(w)))
    ELSE IF e.tag = "Alternate" THEN Matches(e.l, w) \/ Matches(e.r, w)
    ELSE \/ w = <<>>
         \/ \E k \in 1..Len(w) :
               Matches(e.e, SubSeq(w, 1, k)) /\ Matches(e, SubSeq(w, k + 1, Len(w)))

\* the literal characters that occur in the expression e
RECURSIVE LiteralsOf(_)
LiteralsOf(e) ==
    IF e.tag = "Epsilon" THEN {}
    ELSE IF e.tag = "Literal" THEN {e.c}
    ELSE IF e.tag = "Star" THEN LiteralsOf(e.e)
    ELSE LiteralsOf(e.l) \cup LiteralsOf(e.r)

-----------------------------------------------------------------------------
(* Claims.                                                                 *)

\* C1: for every NFA given to to_dfa and every string w over the alphabet, run on
\* the resulting DFA returns true exactly when the NFA has a path from its start
\* state to an accepting state that reads w (epsilon-moves allowed anywhere).
C1_DfaAcceptsWhatNfaAccepts ==
    (src.kind = "nfa" /\ IsSome(ran) /\ IsStringOver(Unwrap(ran).input, Sigma))
        => Unwrap(ran).result = Returned(PathAccepts(nfa, Unwrap(ran).input))

\* C1 witness: an NFA with an epsilon-cycle and two targets for one (state, char),
\* whose DFA has accepted an input of two or more characters.
C1_Witness ==
    /\ src.kind = "nfa"
    /\ IsSome(ran)
    /\ Len(Unwrap(ran).input) >= 2
    /\ IsStringOver(Unwrap(ran).input, Sigma)
    /\ Unwrap(ran).result = Returned(TRUE)
    /\ \E e \in EdgesOf(nfa) : e[2] = None /\ e[1] \in LeastEpsClosed(nfa, {e[3]})
    /\ \E key \in DOMAIN nfa.transitions :
          key[2] # None /\ Cardinality(nfa.transitions[key]) >= 2

\* C6: in every DFA produced by to_dfa the start state is index 0 and is the
\* epsilon-closure of the NFA start state; a FAILURE state, if there is one, has
\* the last index, is not accepting, and its row points to itself.
C6_StartIsZeroDeadIsLast ==
    (src.kind = "nfa" /\ pc = "done") =>
        /\ dfa.start_state_idx = 0
        /\ LeastEpsClosed(nfa, {nfa.start_state}) \in DOMAIN dfa_states
        /\ dfa_states[LeastEpsClosed(nfa, {nfa.start_state})] = 0
        /\ IsSome(FailureIdx(dfa)) =>
              LET dead == Unwrap(FailureIdx(dfa))
              IN /\ dead = Len(dfa.accept_states) - 1
                 /\ dead = Len(dfa.state_properties) - 1
                 /\ ~dfa.accept_states[dead + 1]
                 /\ ~dfa.state_properties[dead + 1].accept
                 /\ \A a \in 0..(BiLen(dfa.alphabet) - 1) : TableAt(dfa, dead, a) = dead

\* C6 witness: a finished DFA with a FAILURE state whose start subset holds more
\* than the NFA start state.
C6_Witness ==
    /\ src.kind = "nfa"
    /\ pc = "done"
    /\ IsSome(FailureIdx(dfa))
    /\ Len(dfa.accept_states) >= 3
    /\ Cardinality(SubsetOfIdx(dfa_states, 0)) >= 2

\* the (state index, symbol index) pairs of the discovered subsets that have
\* no target: the epsilon-closure of the move is empty
MissingEntries ==
    {<<dfa_states[S], j - 1>> : <<S, j>> \in
        {p \in (DOMAIN dfa_states) \X (1..Len(alphabet)) :
            LeastEpsClosed(nfa, CharTargets(nfa, p[1], alphabet[p[2]])) = {}}}

\* C8: to_dfa allocates FAILURE exactly when some discovered subset and symbol have
\* an empty epsilon-closure of the move; then exactly the missing entries and the
\* FAILURE row point to FAILURE; otherwise the DFA has one state per discovered
\* subset and no FAILURE state.
C8_DeadStateOnDemand ==
    (src.kind = "nfa" /\ pc = "done") =>
        LET num == Cardinality(DOMAIN dfa_states)
            cols == 0..(BiLen(dfa.alphabet) - 1)
        IN /\ IsSome(FailureIdx(dfa)) <=> MissingEntries # {}
           /\ MissingEntries # {} =>
                /\ Len(dfa.accept_states) = num + 1
                /\ Unwrap(FailureIdx(dfa)) = num
                /\ \A q \in 0..(num - 1), a \in cols :
                      TableAt(dfa, q, a) = num <=> <<q, a>> \in MissingEntries
                /\ \A a \in cols : TableAt(dfa, num, a) = num
           /\ MissingEntries = {} =>
                /\ Len(dfa.accept_states) = num
                /\ Len(dfa.transition_table) = num * BiLen(dfa.alphabet)
                /\ \A p \in dfa.state_keys : p[1] # FAILURE
                /\ \A i \in 1..Len(dfa.state_properties) :
                      dfa.state_properties[i].label # Some(FAILURE)

\* C8 witness: a finished DFA with a FAILURE state where one row of a subset has
\* both an entry that points to FAILURE and one that does not.
C8_Witness ==
    /\ src.kind = "nfa"
    /\ pc = "done"
    /\ IsSome(FailureIdx(dfa))
    /\ \E q \in 0..(Cardinality(DOMAIN dfa_states) - 1) :
          /\ TableAt(dfa, q, 0) = Unwrap(FailureIdx(dfa))
          /\ TableAt(dfa, q, 1) # Unwrap(FailureIdx(dfa))

\* C2: for every expression tree E the DFA returned by from_regex accepts w exactly
\* when w is in the language of E, for every w up to MaxLen over the characters of
\* the regex.
C2_RegexDfaHasLanguageOfExpr ==
    (/\ src.kind = "regex"
     /\ IsSome(ran)
     /\ IsStringOver(Unwrap(ran).input, LiteralsOf(src.expr)))
        => Unwrap(ran).result = Returned(Matches(src.expr, Unwrap(ran).input))

\* C2 witness: the tree of `(a|b)*abb`, with a Star, an Alternate and three Concats,
\* whose DFA has accepted "abb".
C2_Witness ==
    /\ src.kind = "regex"
    /\ src.expr.tag = "Concat"
    /\ src.expr.l.tag = "Concat"
    /\ src.expr.l.l.tag = "Concat"
    /\ src.expr.l.l.l.tag = "Star"
    /\ src.expr.l.l.l.e.tag = "Alternate"
    /\ IsSome(ran)
    /\ Unwrap(ran).input = <<97, 98, 98>>
    /\ Unwrap(ran).result = Returned(TRUE)

-----------------------------------------------------------------------------
(* Reference semantics of run and of the rules of a DFA-mode spec.         *)

\* the characters of the alphabet of the DFA d
AlphabetOf(d) == {p[1] : p \in d.alphabet}

\* the alphabet index of the character c
IndexOf(d, c) == CHOOSE i \in 0..(Cardinality(d.alphabet) - 1) : <<c, i>> \in d.alphabet

\* the reference loop: q := transition_table[q * |alphabet| + index(c)] once per
\* character of w, in order
RECURSIVE RefState(_, _, _)
RefState(d, w, q) ==
    IF w = <<>> THEN q
    ELSE RefState(d, Tail(w),
                  d.transition_table[q * Cardinality(d.alphabet) + IndexOf(d, Head(w)) + 1])

\* accept_states[q] for the q of the reference loop
RefAccepts(d, w) == d.accept_states[RefState(d, w, d.start_state_idx) + 1]

\* the specifier covers c: a literal that holds c, or a range "x..y" around c
SpecCovers(spec, c) ==
    IF spec.kind = "Literal" THEN \E i \in 1..Len(spec.s) : spec.s[i] = c
    ELSE /\ IsSome(spec.crange)
         /\ LET r == spec.crange[1]
            IN Len(r) = 4 /\ r[2] = 46 /\ r[3] = 46 /\ r[1] <= c /\ c <= r[4]

\* the declared alphabet of the spec y
DeclaredChars(y) ==
    {c \in InputChars : \E i \in 1..Len(y.alphabet) : SpecCovers(y.alphabet[i], c)}

\* the trigger `on` of a rule of the spec y covers the character c
RuleCovers(y, on, c) ==
    IF on.kind = "Single" THEN SpecCovers(on.spec, c)
    ELSE IF on.kind = "Multiple" THEN \E i \in 1..Len(on.specs) : SpecCovers(on.specs[i], c)
    ELSE IF on.kind = "Keyword" THEN on.kw = "alphabet" /\ c \in DeclaredChars(y)
    ELSE /\ c \in DeclaredChars(y)
         /\ IF on.except.kind = "Single" THEN ~SpecCovers(on.except.spec, c)
            ELSE \A i \in 1..Len(on.except.specs) : ~SpecCovers(on.except.specs[i], c)

\* the rules of the source state q in the spec y
RulesOf(y, q) == IF q \in DOMAIN y.transitions THEN y.transitions[q] ELSE <<>>

\* two rules of one source state cover one character with different destinations
Ambiguous(y) ==
    \E q \in DOMAIN y.transitions, c \in DeclaredChars(y) :
        \E i \in 1..Len(y.transitions[q]), j \in 1..Len(y.transitions[q]) :
            /\ RuleCovers(y, y.transitions[q][i].on, c)
            /\ RuleCovers(y, y.transitions[q][j].on, c)
            /\ y.transitions[q][i].to # y.transitions[q][j].to

\* the (declared state, alphabet character) pairs covered by no rule
Holes(y) ==
    {h \in (DOMAIN y.states) \X DeclaredChars(y) :
        \A i \in 1..Len(RulesOf(y, h[1])) : ~RuleCovers(y, RulesOf(y, h[1])[i].on, h[2])}

\* the source is a YAML spec with `dfa: true`
DfaMode == src.kind = "yaml" /\ src.yaml.dfa

\* the number of states of the constructed DFA: the declared states in DFA mode,
\* the discovered subsets and the dead state after determinization
NumStates ==
    IF DfaMode THEN Cardinality(DOMAIN src.yaml.states)
    ELSE Cardinality(DOMAIN dfa_states) + (IF IsSome(FailureIdx(dfa)) THEN 1 ELSE 0)

-----------------------------------------------------------------------------
(* Claims about run and about the loaders.                                 *)

\* C3: for every DFA and every input over its alphabet, run returns accept_states[q]
\* for the q of the reference loop from start_state_idx, despite the separate first
\* character and the reused alphabet index; for the empty input it returns
\* accept_states[start_state_idx].
C3_RunIsTheReferenceLoop ==
    (IsSome(ran) /\ IsStringOver(Unwrap(ran).input, AlphabetOf(dfa)))
        => /\ Unwrap(ran).result = Returned(RefAccepts(dfa, Unwrap(ran).input))
           /\ Unwrap(ran).input = <<>> =>
                 Unwrap(ran).result = Returned(dfa.accept_states[dfa.start_state_idx + 1])

\* C3 witness: a DFA loaded in DFA mode has accepted "abb", where the second b
\* reuses the index looked up for the first one.
C3_Witness ==
    /\ DfaMode
    /\ IsSome(ran)
    /\ Unwrap(ran).input = <<97, 98, 98>>
    /\ Unwrap(ran).result = Returned(TRUE)
    /\ ~RefAccepts(dfa, <<97, 98>>)

\* C4: for every constructed DFA and every input with a character outside the
\* alphabet, at any position, run returns false and does not panic.
C4_ForeignCharacterRejects ==
    (IsSome(ran) /\ ~IsStringOver(Unwrap(ran).input, AlphabetOf(dfa)))
        => Unwrap(ran).result = Returned(FALSE)

\* C4 witness: run has rejected an input whose last character is outside the
\* alphabet and whose two-character prefix leads to an accepting state.
C4_Witness ==
    /\ IsSome(ran)
    /\ Len(Unwrap(ran).input) = 3
    /\ IsStringOver(SubSeq(Unwrap(ran).input, 1, 2), AlphabetOf(dfa))
    /\ Unwrap(ran).input[3] \notin AlphabetOf(dfa)
    /\ RefAccepts(dfa, SubSeq(Unwrap(ran).input, 1, 2))
    /\ Unwrap(ran).result = Returned(FALSE)

\* C5: every DFA returned by from_regex or from_yaml has a table of (number of
\* states) * (alphabet size) entries, each a state index, and one accept flag and
\* one state property per state.
C5_TableAndVectorsFitTheStates ==
    pc = "done" =>
        /\ Len(dfa.transition_table) = NumStates * Cardinality(dfa.alphabet)
        /\ \A k \in 1..Len(dfa.transition_table) :
              dfa.transition_table[k] \in 0..(NumStates - 1)
        /\ Len(dfa.accept_states) = NumStates
        /\ Len(dfa.state_properties) = NumStates

\* C5 witness: a DFA of three states, one of them FAILURE, built from a YAML spec
\* in NFA mode.
C5_Witness ==
    /\ src.kind = "yaml"
    /\ ~src.yaml.dfa
    /\ pc = "done"
    /\ IsSome(FailureIdx(dfa))
    /\ NumStates = 3
    /\ Len(dfa.transition_table) = 6

\* C7: in every DFA constructed by any entry point, DFA mode included, a state
\* whose label is FAILURE is not accepting and every entry of its row is its own
\* index.
C7_FailureLabelIsDeadSink ==
    pc = "done" =>
        \A q \in 0..(Len(dfa.state_properties) - 1) :
            dfa.state_properties[q + 1].label = Some(FAILURE) =>
                /\ ~dfa.accept_states[q + 1]
                /\ \A a \in 0..(Cardinality(dfa.alphabet) - 1) : TableAt(dfa, q, a) = q

\* C9: in DFA mode from_yaml returns an error and no automaton whenever two rules
\* of one source state cover one character with different destinations, whatever
\* their order and their specifier forms.
C9_AmbiguityIsAnError ==
    (DfaMode /\ pc # "start" /\ Ambiguous(src.yaml))
        => pc = "error" /\ IsSome(error) /\ dfa = NoDfa

\* C9 witness: the load has failed on a state whose first rule covers b by
\* exclusion and whose second rule covers it by a range, with another destination.
C9_Witness ==
    /\ DfaMode
    /\ pc = "error"
    /\ error = Some("AmbiguousTransition")
    /\ KeyP \in DOMAIN src.yaml.transitions
    /\ Len(src.yaml.transitions[KeyP]) = 2
    /\ src.yaml.transitions[KeyP][1].on.kind = "Except"
    /\ src.yaml.transitions[KeyP][2].on = OnSingle(SpecMap(Some(<<97, 46, 46, 98>>), None))
    /\ src.yaml.transitions[KeyP][1].to # src.yaml.transitions[KeyP][2].to

\* C10: in DFA mode from_yaml returns an error and no automaton whenever some
\* (declared state, alphabet character) pair is covered by no rule, also for a state
\* that is unreachable or has no entry in the transitions map; no FAILURE state
\* fills the hole.
C10_HoleIsAnError ==
    (DfaMode /\ pc # "start" /\ Holes(src.yaml) # {})
        => pc = "error" /\ IsSome(error) /\ dfa = NoDfa

\* C10 witness: the load has failed on a spec whose only holes are those of q,
\* which has no entry in the transitions map and is the target of no rule.
C10_Witness ==
    /\ DfaMode
    /\ pc = "error"
    /\ error = Some("IncompleteTransitions")
    /\ src.yaml.start_state = KeyP
    /\ DOMAIN src.yaml.transitions = {KeyP}
    /\ \A i \in 1..Len(src.yaml.transitions[KeyP]) : src.yaml.transitions[KeyP][i].to = KeyP
    /\ Holes(src.yaml) = {<<KeyQ, 97>>, <<KeyQ, 98>>}

-----------------------------------------------------------------------------
(* Claims about what the YAML loader builds and rejects.                   *)

\* the index of the declared state k: its rank among the keys of the spec y
KeyIndex(y, k) == Cardinality({k2 \in DOMAIN y.states : StrLess(k2, k)})

\* the index of the character c: its rank in the declared alphabet of y
CharIndex(y, c) == Cardinality({c2 \in DeclaredChars(y) : c2 < c})

\* C11: a DFA-mode load that succeeds returns the declared automaton: every entry
\* (q, a) is the index of the destination of the rules covering (q, a), the start
\* index is that of start_state, the accept flags are the declared ones, and the
\* states are exactly the declared states.
C11_DfaModeReturnsTheDeclaredAutomaton ==
    (DfaMode /\ pc = "done") =>
        LET y == src.yaml
            size == Cardinality(DeclaredChars(y))
        IN /\ \A q \in DOMAIN y.states, c \in DeclaredChars(y) :
                 \E i \in 1..Len(RulesOf(y, q)) :
                    /\ RuleCovers(y, RulesOf(y, q)[i].on, c)
                    /\ dfa.transition_table[KeyIndex(y, q) * size + CharIndex(y, c) + 1]
                          = KeyIndex(y, RulesOf(y, q)[i].to)
           /\ dfa.start_state_idx = KeyIndex(y, y.start_state)
           /\ \A q \in DOMAIN y.states :
                 dfa.accept_states[KeyIndex(y, q) + 1] = y.states[q].accept
           /\ Len(dfa.accept_states) = Cardinality(DOMAIN y.states)
           /\ Len(dfa.transition_table) = Cardinality(DOMAIN y.states) * size
           /\ dfa.state_keys = {<<k, KeyIndex(y, k)>> : k \in DOMAIN y.states}
           /\ dfa.alphabet = {<<c, CharIndex(y, c)>> : c \in DeclaredChars(y)}

\* C11 witness: a loaded DFA that starts in q, accepts in p only, and whose row
\* of q differs between a and b.
C11_Witness ==
    /\ DfaMode
    /\ pc = "done"
    /\ src.yaml.start_state = KeyQ
    /\ dfa.start_state_idx = 1
    /\ dfa.accept_states = <<TRUE, FALSE>>
    /\ dfa.transition_table[3] # dfa.transition_table[4]

\* the source is a YAML spec with `dfa: false`
NfaMode == src.kind = "yaml" /\ ~src.yaml.dfa

\* the <<source key, rule>> pairs of the spec y
RulePairs(y) ==
    UNION {{<<q, y.transitions[q][i]>> : i \in 1..Len(y.transitions[q])} :
             q \in DOMAIN y.transitions}

\* start_state, every source key and every `to` key are declared states
KeysKnown(y) ==
    /\ y.start_state \in DOMAIN y.states
    /\ DOMAIN y.transitions \subseteq DOMAIN y.states
    /\ \A p \in RulePairs(y) : p[2].to \in DOMAIN y.states

\* the <<source key, rule>> pairs of y whose trigger is the epsilon keyword
EpsilonRules(y) == {p \in RulePairs(y) : p[2].on = OnEpsilon}

\* C12: in DFA mode a rule with the epsilon trigger makes from_yaml return an error
\* and no automaton; in NFA mode the rule is accepted and is an epsilon-edge from
\* its source state to its destination state.
C12_EpsilonRuleByMode ==
    (src.kind = "yaml" /\ pc # "start" /\ EpsilonRules(src.yaml) # {}) =>
        /\ DfaMode => (pc = "error" /\ IsSome(error) /\ dfa = NoDfa)
        /\ (NfaMode /\ KeysKnown(src.yaml)) =>
              /\ pc # "error"
              /\ \A p \in EpsilonRules(src.yaml) :
                    /\ <<KeyIndex(src.yaml, p[1]), None>> \in DOMAIN nfa.transitions
                    /\ KeyIndex(src.yaml, p[2].to)
                          \in nfa.transitions[<<KeyIndex(src.yaml, p[1]), None>>]
              /\ \A k \in DOMAIN nfa.transitions :
                    k[2] = None =>
                        \A t \in nfa.transitions[k] :
                            \E p \in EpsilonRules(src.yaml) :
                                /\ KeyIndex(src.yaml, p[1]) = k[1]
                                /\ KeyIndex(src.yaml, p[2].to) = t

\* C12 witness: an NFA-mode spec whose only rule of p is the epsilon rule to q has
\* been determinized, and the empty input is accepted through that edge.
C12_Witness ==
    /\ NfaMode
    /\ KeyP \in DOMAIN src.yaml.transitions
    /\ src.yaml.transitions[KeyP] = <<[to |-> KeyQ, on |-> OnEpsilon]>>
    /\ <<0, None>> \in DOMAIN nfa.transitions
    /\ nfa.transitions[<<0, None>>] = {1}
    /\ IsSome(ran)
    /\ Unwrap(ran) = [input |-> <<>>, result |-> Returned(TRUE)]

\* C13: in DFA mode from_yaml returns an error and no automaton whenever the
\* trigger of some rule expands to a character outside the declared alphabet.
C13_ForeignTriggerIsAnError ==
    (/\ DfaMode
     /\ pc # "start"
     /\ \E p \in RulePairs(src.yaml), c \in InputChars \ DeclaredChars(src.yaml) :
           RuleCovers(src.yaml, p[2].on, c))
        => pc = "error" /\ IsSome(error) /\ dfa = NoDfa

\* C13 witness: the load has failed on the rule `{crange: a..c}` of p, which
\* covers the whole alphabet and the foreign c.
C13_Witness ==
    /\ DfaMode
    /\ pc = "error"
    /\ error = Some("CharacterNotInAlphabet")
    /\ KeyP \in DOMAIN src.yaml.transitions
    /\ src.yaml.transitions[KeyP]
          = <<[to |-> KeyQ, on |-> OnSingle(SpecMap(Some(<<97, 46, 46, 99>>), None))]>>

\* C14: in both modes from_yaml returns an error and no automaton whenever
\* start_state, a source key of transitions or the `to` key of a rule is not a
\* declared state.
C14_UnknownStateIsAnError ==
    (src.kind = "yaml" /\ pc # "start" /\ ~KeysKnown(src.yaml))
        => pc = "error" /\ IsSome(error) /\ dfa = NoDfa /\ nfa = NoNfa

\* C14 witness: an NFA-mode load has failed on a spec whose only undeclared key
\* is a source key with an empty rule list.
C14_Witness ==
    /\ NfaMode
    /\ pc = "error"
    /\ error = Some("StateNotFound")
    /\ src.yaml.start_state = KeyP
    /\ KeyR \in DOMAIN src.yaml.transitions
    /\ src.yaml.transitions[KeyR] = <<>>
    /\ \A p \in RulePairs(src.yaml) : p[2].to \in DOMAIN src.yaml.states

\* C15: a spec that loads with `dfa: true` also loads with `dfa: false` and nothing
\* else changed, and the determinized DFA gives the same run result as the directly
\* built one on every input.
C15_DfaSpecLoadsAsNfaWithSameRuns ==
    (DfaMode /\ pc = "done" /\ IsSome(ran)) =>
        /\ FromYaml([src.yaml EXCEPT !.dfa = FALSE]).ok
        /\ Run(FromYaml([src.yaml EXCEPT !.dfa = FALSE]).v, Unwrap(ran).input)
              = Unwrap(ran).result

\* C15 witness: a directly built DFA whose start state has index 1, where the
\* determinized one starts at 0, has accepted an input of three characters.
C15_Witness ==
    /\ DfaMode
    /\ pc = "done"
    /\ dfa.start_state_idx = 1
    /\ IsSome(ran)
    /\ Len(Unwrap(ran).input) = 3
    /\ Unwrap(ran).result = Returned(TRUE)
    /\ FromYaml([src.yaml EXCEPT !.dfa = FALSE]).v.start_state_idx = 0

-----------------------------------------------------------------------------
(* Claims about the interactive loop.                                      *)

\* the contents a successful load can have read
LoadableContents ==
    {c \in FileContents : c.kind # "missing" /\ FromYamlText(c).ok}
    \cup {a \in ReplArgs : a.kind = "regex"}

\* the Dfa that loading each of these contents gives
DfaOfContent ==
    [c \in LoadableContents |->
        IF c.kind = "regex" THEN FromRegexTree(c.expr) ELSE FromYamlText(c).v]

\* what the reference loop returns on the DFA d for the line w
RefResult(d, w) ==
    IF IsStringOver(w, AlphabetOf(d)) THEN Returned(RefAccepts(d, w)) ELSE Returned(FALSE)

\* C16: in the interactive loop a `reload` or `load <path>` whose loading fails
\* leaves the active automaton as it was and the loop running, and every line that
\* is run is evaluated against the automaton of the last successful load.
C16_FailedLoadKeepsAutomaton ==
    [][/\ (pc = "repl" /\ cmd'.kind \in {"reload", "load"} /\ ~cmd'.ok)
            => (dfa' = dfa /\ pc' = "repl" /\ dfa' = DfaOfContent[Unwrap(installed')])
       /\ (pc = "repl" /\ cmd'.kind = "run")
            => /\ IsSome(installed')
               /\ Unwrap(installed') \in LoadableContents
               /\ Unwrap(ran').result
                     = Run(DfaOfContent[Unwrap(installed')], Unwrap(ran').input)]_vars

\* C16 witness: a `reload` has just failed on a file that is no longer a YAML spec,
\* after a line was run, and the automaton of the good DFA spec is still active.
C16_Witness ==
    /\ pc = "repl"
    /\ cmd = [kind |-> "reload", ok |-> FALSE]
    /\ IsSome(current_path)
    /\ files[Unwrap(current_path)] = FileGarbage
    /\ error = Some("Yaml")
    /\ IsSome(ran)
    /\ installed = Some(FileYaml(GoodDfaYaml))
    /\ dfa = FromYaml(GoodDfaYaml).v

\* C17: run does not modify the automaton and keeps nothing between calls: in any
\* sequence of runs each result is that of the reference loop on the call's own
\* input, and the DFA is the same after the call as before.
C17_RunKeepsNothing ==
    [][(pc = "repl" /\ cmd'.kind = "run")
          => /\ dfa' = dfa
             /\ IsSome(ran')
             /\ Unwrap(ran').result = RefResult(dfa, Unwrap(ran').input)]_vars

\* C17 witness: the line "bb" has been accepted by the DFA of the good DFA spec,
\* right after another line was run.
C17_Witness ==
    /\ pc = "repl"
    /\ cmd.kind = "run"
    /\ installed = Some(FileYaml(GoodDfaYaml))
    /\ Unwrap(ran) = [input |-> <<98, 98>>, result |-> Returned(TRUE)]

-----------------------------------------------------------------------------
(* Claims about the regex parser.  The shape of a text is read off by a    *)
(* scan of parenthesis depth, not by the parser.                           *)

MetaChars == {LParen, RParen, BarChar, StarChar, PlusChar, QuestionChar, CaretChar}

\* the text of the source without its whitespace, once from_regex has parsed it
ParsedText == Cleaned(src.text)
HasParsed == src.kind = "text" /\ pc # "start"

\* the number of parentheses open after the first i characters of t
Depth(t, i) ==
    Cardinality({j \in 1..i : t[j] = LParen}) - Cardinality({j \in 1..i : t[j] = RParen})

\* the length of the atom at the front of t: a literal, or a group up to the
\* parenthesis that closes it; 0 when there is none
AtomLen(t) ==
    IF t = <<>> THEN 0
    ELSE IF t[1] = LParen
    THEN IF \E i \in 1..Len(t) : Depth(t, i) = 0
         THEN Min({i \in 1..Len(t) : Depth(t, i) = 0}) ELSE 0
    ELSE IF t[1] \in MetaChars THEN 0 ELSE 1

\* position k of t holds a digit of an exponent
ExpDigit(t, k) ==
    /\ t[k] \in Digits
    /\ \E j \in 1..(k - 1) : t[j] = CaretChar /\ \A i \in (j + 1)..k : t[i] \in Digits

\* t is one operand: an atom followed by postfix operators only, and it parses
IsOperand(t) ==
    /\ AtomLen(t) > 0
    /\ \A i \in (AtomLen(t) + 1)..Len(t) :
          \/ t[i] \in {StarChar, PlusChar, QuestionChar, CaretChar}
          \/ ExpDigit(SubSeq(t, AtomLen(t) + 1, Len(t)), i - AtomLen(t))
    /\ Parse(t).ok

Front(t) == SubSeq(t, 1, Len(t) - 1)
Last(t) == t[Len(t)]

\* every node of e is one of the five variants
RECURSIVE FiveVariants(_)
FiveVariants(e) ==
    \/ e = Epsilon
    \/ e.tag = "Literal" /\ DOMAIN e = {"tag", "c"}
    \/ e.tag = "Star" /\ DOMAIN e = {"tag", "e"} /\ FiveVariants(e.e)
    \/ /\ e.tag \in {"Concat", "Alternate"}
       /\ DOMAIN e = {"tag", "l", "r"}
       /\ FiveVariants(e.l)
       /\ FiveVariants(e.r)

\* C18: for an operand that parses to e, `e+` parses to Concat(e, Star(e)) and `e?`
\* to Alternate(e, Epsilon), whatever postfix operators the operand already ends
\* with, and a tree returned by parse has nodes of the five variants only.
C18_PlusAndOptionalAreDesugared ==
    HasParsed =>
        /\ (Len(ParsedText) > 1 /\ Last(ParsedText) = PlusChar /\ IsOperand(Front(ParsedText)))
              => tree = Some(Concat(Parse(Front(ParsedText)).v,
                                    Star(Parse(Front(ParsedText)).v)))
        /\ (Len(ParsedText) > 1 /\ Last(ParsedText) = QuestionChar
                /\ IsOperand(Front(ParsedText)))
              => tree = Some(Alternate(Parse(Front(ParsedText)).v, Epsilon))
        /\ IsSome(tree) => FiveVariants(Unwrap(tree))

\* C18 witness: `a?+` has been parsed: the plus applies to the desugared optional
C18_Witness ==
    /\ HasParsed
    /\ src.text = <<97, QuestionChar, PlusChar>>
    /\ tree = Some(Concat(Alternate(LitA, Epsilon), Star(Alternate(LitA, Epsilon))))

\* the digits that end t
RECURSIVE DigitSuffix(_)
DigitSuffix(t) ==
    IF t # <<>> /\ Last(t) \in Digits THEN Append(DigitSuffix(Front(t)), Last(t)) ELSE <<>>

\* what comes before the `^` and the digits that end t
BeforeCaret(t) == SubSeq(t, 1, Len(t) - Len(DigitSuffix(t)) - 1)

\* t is an operand, `^`, and digits up to the end (none included)
IsPower(t) ==
    /\ Len(t) > Len(DigitSuffix(t))
    /\ t[Len(t) - Len(DigitSuffix(t))] = CaretChar
    /\ IsOperand(BeforeCaret(t))

\* n copies of e, nested to the left
RECURSIVE LeftNested(_, _)
LeftNested(e, n) == IF n = 1 THEN e ELSE Concat(LeftNested(e, n - 1), e)

ParseFailed == tree = None /\ IsSome(error)

\* the tree of e^digits for digits that denote 1 <= n <= u32::MAX
PowerTree(e, digits) == LeftNested(e, DigitsValue(Significant(digits), 0))

\* C19 as amended: for an operand that parses to e, `e^digits` parses to the
\* left-nested concatenation of n copies of e when the digits denote n with
\* 2 <= n <= 4294967295, and to e when n = 1; parse returns an error when n = 0,
\* when n is above 4294967295, and when no digit follows the `^`.
C19_ExponentCopiesUpToU32 ==
    HasParsed =>
        /\ (IsPower(ParsedText) /\ DigitSuffix(ParsedText) # <<>>)
              => IF Significant(DigitSuffix(ParsedText)) = <<>>
                    \/ ExceedsU32(Significant(DigitSuffix(ParsedText)))
                 THEN ParseFailed
                 ELSE tree = Some(PowerTree(Parse(BeforeCaret(ParsedText)).v,
                                            DigitSuffix(ParsedText)))
        /\ \A k \in 2..Len(ParsedText) :
              (/\ ParsedText[k] = CaretChar
               /\ k = Len(ParsedText) \/ ParsedText[k + 1] \notin Digits
               /\ IsOperand(SubSeq(ParsedText, 1, k - 1)))
              => ParseFailed

\* C19 witness: `(ab)^3` has been parsed to three copies nested to the left
C19_Witness ==
    /\ HasParsed
    /\ src.text = <<LParen, 97, 98, RParen, CaretChar, 51>>
    /\ tree = Some(Concat(Concat(Concat(LitA, LitB), Concat(LitA, LitB)), Concat(LitA, LitB)))

\* C19 as stated: whenever the digits denote some n >= 1 the parse succeeds
C19_AnyExponentGivesCopies ==
    (HasParsed /\ IsPower(ParsedText) /\ Significant(DigitSuffix(ParsedText)) # <<>>)
        => IsSome(tree)

\* position k of t starts an atom outside every group
TopAtomStart(t, k) ==
    /\ Depth(t, k - 1) = 0
    /\ t[k] = LParen \/ (t[k] \notin MetaChars /\ ~ExpDigit(t, k))

\* the positions of the `|` outside every group
TopBars(t) == {k \in 1..Len(t) : t[k] = BarChar /\ Depth(t, k - 1) = 0}

Max(S) == CHOOSE m \in S : \A n \in S : m >= n

\* t cut at position k: before k, from k on, after k
Before(t, k) == SubSeq(t, 1, k - 1)
From(t, k) == SubSeq(t, k, Len(t))

\* the root of the tree of t splits t at its last `|` outside every group
AlternationIsLowest(t, e) ==
    TopBars(t) # {} =>
        /\ Parse(Before(t, Max(TopBars(t)))).ok
        /\ Parse(From(t, Max(TopBars(t)) + 1)).ok
        /\ TopBars(From(t, Max(TopBars(t)) + 1)) = {}
        /\ e = Alternate(Parse(Before(t, Max(TopBars(t)))).v,
                         Parse(From(t, Max(TopBars(t)) + 1)).v)

\* the positions after the first where an atom starts outside every group
LaterAtoms(t) == {k \in 2..Len(t) : TopAtomStart(t, k)}

\* without such a `|`, the root splits t in front of its last operand
ConcatenationIsNext(t, e) ==
    (TopBars(t) = {} /\ LaterAtoms(t) # {}) =>
        /\ Parse(Before(t, Max(LaterAtoms(t)))).ok
        /\ IsOperand(From(t, Max(LaterAtoms(t))))
        /\ e = Concat(Parse(Before(t, Max(LaterAtoms(t)))).v,
                      Parse(From(t, Max(LaterAtoms(t)))).v)

\* a group that is the whole text has the tree of what it encloses
ParenthesesOverride(t, e) ==
    (t[1] = LParen /\ AtomLen(t) = Len(t)) => Parse(SubSeq(t, 2, Len(t) - 1)) = Ok(e)

LitC == Literal(99)
LitD == Literal(100)

\* C20: alternation binds loosest, then concatenation, then the postfix operators,
\* parentheses override, and alternation and concatenation associate to the left:
\* the tree of a text that parses is rooted at its last `|` outside the groups, else
\* at the juxtaposition in front of its last operand; `ab|cd`, `a(b|c)d` and `ab*`
\* parse to the trees the sentence gives.
C20_PrecedenceAndAssociativity ==
    HasParsed =>
        /\ IsSome(tree) =>
              /\ AlternationIsLowest(ParsedText, Unwrap(tree))
              /\ ConcatenationIsNext(ParsedText, Unwrap(tree))
              /\ ParenthesesOverride(ParsedText, Unwrap(tree))
        /\ src.text = <<97, 98, BarChar, 99, 100>>
              => tree = Some(Alternate(Concat(LitA, LitB), Concat(LitC, LitD)))
        /\ src.text = <<97, LParen, 98, BarChar, 99, RParen, 100>>
              => tree = Some(Concat(Concat(LitA, Alternate(LitB, LitC)), LitD))
        /\ src.text = <<97, 98, StarChar>>
              => tree = Some(Concat(LitA, Star(LitB)))

\* C20 witness: `a|ba*` has been parsed: the star is on the last a only, the
\* concatenation is under the alternation
C20_Witness ==
    /\ HasParsed
    /\ src.text = <<97, BarChar, 98, 97, StarChar>>
    /\ tree = Some(Alternate(LitA, Concat(LitB, Star(LitA))))

\* the operators, which cannot start a term
Operators == {BarChar, StarChar, PlusChar, QuestionChar, CaretChar}

\* t has a `(` that is never closed
UnclosedParen(t) == Depth(t, Len(t)) > 0

\* t has a `)` that closes nothing
UnmatchedParen(t) == \E i \in 1..Len(t) : Depth(t, i) < 0

\* an operator stands where a term is expected: first, after `(` or after `|`
StrayOperator(t) ==
    \/ t # <<>> /\ t[1] \in Operators
    \/ \E i \in 1..(Len(t) - 1) : t[i] \in {LParen, BarChar} /\ t[i + 1] \in Operators

\* an alternative or a group has no term: `|` or `(` followed by `)` or by the end
MissingTerm(t) ==
    \/ t # <<>> /\ Last(t) \in {BarChar, LParen}
    \/ \E i \in 1..(Len(t) - 1) : t[i] \in {LParen, BarChar} /\ t[i + 1] = RParen

\* from_regex has returned and has built nothing
NoAutomaton == pc = "error" /\ dfa = NoDfa /\ nfa = NoNfa /\ ran = None

\* C21: parse returns an error and from_regex builds no automaton for the empty and
\* the whitespace-only text, for a `(` never closed, a `)` that closes nothing, an
\* operator in the place of a term, an alternative or group without a term, and
\* input left over after a complete expression.
C21_MalformedTextIsAnError ==
    HasParsed =>
        /\ (\/ ParsedText = <<>>
            \/ UnclosedParen(ParsedText)
            \/ UnmatchedParen(ParsedText)
            \/ StrayOperator(ParsedText)
            \/ MissingTerm(ParsedText))
              => ParseFailed /\ NoAutomaton
        /\ (ParseAlternate(ParsedText).ok /\ ParseAlternate(ParsedText).v.rest # <<>>)
              => ParseFailed /\ NoAutomaton /\ error = Some("LeftOver")

\* C21 witness: `a )b`, a complete expression with input left over, was refused
C21_Witness ==
    /\ HasParsed
    /\ src.text = <<97, 32, RParen, 98>>
    /\ error = Some("LeftOver")
    /\ NoAutomaton

\* the texts `a+`, `aa*`, `(ab)^3`, `ababab` and `a?`
TextPlus == <<97, PlusChar>>
TextStar == <<97, 97, StarChar>>
TextCubed == <<LParen, 97, 98, RParen, CaretChar, 51>>
TextThrice == <<97, 98, 97, 98, 97, 98>>
TextOptional == <<97, QuestionChar>>

\* the Dfa that from_regex returns on each of them
CompiledFrom ==
    [t \in {TextPlus, TextStar, TextCubed, TextThrice, TextOptional} |->
        FromRegexTree(Parse(t).v)]

\* the result of the run that was made
RunInput == Unwrap(ran).input
RunResult == Unwrap(ran).result

\* C22: on every input the DFA compiled from `a+` and the one from `aa*` return the
\* same run result, so do the DFA from `(ab)^3` and the one from `ababab`, and the
\* DFA from `a?` accepts the empty string and `a` and nothing else.
C22_ShorthandsHaveTheLanguageOfTheirExpansion ==
    (HasParsed /\ IsSome(ran)) =>
        /\ ParsedText = TextPlus => RunResult = Run(CompiledFrom[TextStar], RunInput)
        /\ ParsedText = TextStar => RunResult = Run(CompiledFrom[TextPlus], RunInput)
        /\ ParsedText = TextCubed => RunResult = Run(CompiledFrom[TextThrice], RunInput)
        /\ ParsedText = TextThrice => RunResult = Run(CompiledFrom[TextCubed], RunInput)
        /\ ParsedText = TextOptional
              => RunResult = Returned(RunInput \in {<<>>, <<97>>})

\* C22 witness: the DFA of `(ab)^3` has accepted `ababab`
C22_Witness ==
    /\ HasParsed
    /\ src.text = TextCubed
    /\ ran = Some([input |-> TextThrice, result |-> Returned(TRUE)])

-----------------------------------------------------------------------------
(* Claims about the DFAs of determinization.                               *)

\* the DFA in `dfa` was built by to_dfa
Determinized ==
    /\ pc = "done"
    /\ \/ src.kind \in {"nfa", "regex", "text"}
       \/ src.kind = "yaml" /\ ~src.yaml.dfa

\* m pairs every index below n with one key, and no key with two indices
KeyBijection(m, n) ==
    /\ {p[2] : p \in m} = 0..(n - 1)
    /\ \A p \in m, q \in m : (p[1] = q[1] \/ p[2] = q[2]) => p = q

\* C23: state_keys of a determinized DFA is a bijection between its keys and the
\* indices below its number of states.  It is not when two subsets have the same
\* key: the later insert removes the pair of the earlier one.
C23_StateKeysAreABijection ==
    Determinized => KeyBijection(dfa.state_keys, Len(dfa.accept_states))

-----------------------------------------------------------------------------
(* Claims about the symbol specifiers.  What a node denotes is read off    *)
(* the node, not computed by to_char_set.                                  *)

\* from_yaml has returned, or has handed its NFA to to_dfa
HasLoaded == src.kind = "raw" /\ pc # "start"

\* the value of `on` in the first rule of p, which leads to q
FirstOn == src.raw.transitions[KeyP][1].on

\* s is "X..Y" with one character on each side
SimpleRange(s) == Len(s) = 4 /\ s[2] = 46 /\ s[3] = 46

\* the characters from x to y, the surrogates left out
CharsBetween(x, y) == (x..y) \ (55296..57343)

\* a range record with nothing but well-formed ranges
ValidRanges(fields) ==
    /\ DOMAIN fields \subseteq {"crange", "nrange"}
    /\ \A name \in DOMAIN fields : fields[name].node = "str" /\ SimpleRange(fields[name].s)
    /\ "crange" \in DOMAIN fields => fields["crange"].s[1] <= fields["crange"].s[4]
    /\ "nrange" \in DOMAIN fields =>
          /\ fields["nrange"].s[1] \in 48..57
          /\ fields["nrange"].s[4] \in 48..57
          /\ fields["nrange"].s[1] <= fields["nrange"].s[4]

\* n is a string literal or a record of well-formed ranges
ValidElement(n) == n.node = "str" \/ (n.node = "map" /\ ValidRanges(n.fields))

\* the characters a valid element denotes
Denoted(n) ==
    IF n.node = "str" THEN {n.s[i] : i \in 1..Len(n.s)}
    ELSE UNION {CharsBetween(n.fields[name].s[1], n.fields[name].s[4]) :
                  name \in DOMAIN n.fields}

\* n is a valid element or a list of them, and what it denotes then
ValidValue(n) ==
    IF n.node = "seq" THEN \A i \in 1..Len(n.items) : ValidElement(n.items[i])
    ELSE ValidElement(n)
DenotedBy(n) ==
    IF n.node = "seq" THEN UNION {Denoted(n.items[i]) : i \in 1..Len(n.items)}
    ELSE Denoted(n)

\* the declared alphabet of a document whose entries are valid
ValidAlphabet == \A i \in 1..Len(src.raw.alphabet) : ValidElement(src.raw.alphabet[i])
DeclaredAlphabet == UNION {Denoted(src.raw.alphabet[i]) : i \in 1..Len(src.raw.alphabet)}

\* the characters on which the Nfa n goes from state 0 (p) to state 1 (q)
EdgesPQ(n) ==
    {k[2][1] : k \in {e \in DOMAIN n.transitions :
                         e[1] = 0 /\ e[2] # None /\ 1 \in n.transitions[e]}}

\* the characters on which the automaton that was loaded goes from p to q: the
\* edges of the Nfa, the row of p in the table of the Dfa
FiresOn ==
    IF src.raw.dfa
    THEN {pr[1] : pr \in {a \in dfa.alphabet : dfa.transition_table[a[2] + 1] = 1}}
    ELSE EdgesPQ(nfa)

\* no range of the document spans the surrogates
NoSurrogateSpan(n) ==
    \A m \in (IF n.node = "seq" THEN {n.items[i] : i \in 1..Len(n.items)} ELSE {n}) :
        m.node = "map" => \A name \in DOMAIN m.fields :
            ~(/\ name = "crange"
              /\ m.fields[name].node = "str"
              /\ SimpleRange(m.fields[name].s)
              /\ m.fields[name].s[1] < 55296
              /\ m.fields[name].s[4] > 57343)

\* C24: `on: {except: s}`, s a specifier or a list of specifiers, resolves to the
\* declared alphabet minus the characters of s: the NFA-mode spec loads with
\* exactly these edges from p to q, a DFA-mode spec that loads has exactly these
\* entries, a one-character input is accepted exactly on them, and with the
\* alphabet a..z and s = [x, y] they are the 24 other letters.
C24_ExceptIsTheComplementInTheAlphabet ==
    (/\ HasLoaded
     /\ ValidAlphabet
     /\ FirstOn.node = "map"
     /\ DOMAIN FirstOn.fields = {"except"}
     /\ ValidValue(FirstOn.fields["except"])
     /\ NoSurrogateSpan(FirstOn.fields["except"])) =>
        /\ ~src.raw.dfa => pc # "error"
        /\ pc \in {"worklist", "done"} =>
              /\ FiresOn = DeclaredAlphabet \ DenotedBy(FirstOn.fields["except"])
              /\ FiresOn \subseteq DeclaredAlphabet
        /\ (IsSome(ran) /\ Len(RunInput) = 1) =>
              RunResult = Returned(RunInput[1] \in DeclaredAlphabet
                                   /\ RunInput[1] \notin DenotedBy(FirstOn.fields["except"]))
        /\ (FirstOn = ExceptXY /\ DeclaredAlphabet = 97..122 /\ pc = "done") =>
              Cardinality(FiresOn) = 24 /\ FiresOn = (97..122) \ {120, 121}

\* C24 witness: with the alphabet a..z and `{except: [x, y]}` the NFA-mode spec has
\* been loaded and determinized, and the input `w` accepted
C24_Witness ==
    /\ HasLoaded
    /\ pc = "done"
    /\ ~src.raw.dfa
    /\ FirstOn = ExceptXY
    /\ Cardinality(FiresOn) = 24
    /\ ran = Some([input |-> <<119>>, result |-> Returned(TRUE)])

\* the characters on which p goes to q when the NFA-mode document of the same
\* alphabet has the value n alone as the `on` of its rule; none when it fails
AloneFires(n) ==
    LET loaded == LoadNodes(RawSpec(FALSE, src.raw.alphabet, n, FALSE))
    IN IF loaded.ok THEN EdgesPQ(loaded.v.nfa) ELSE {}
AloneLoads(n) == LoadNodes(RawSpec(FALSE, src.raw.alphabet, n, FALSE)).ok

\* the elements of a list
ItemsOf(n) == {n.items[i] : i \in 1..Len(n.items)}

\* n is a list of string literals (the word `alphabet` among them) and valid ranges
ListOfElements(n) ==
    /\ n.node = "seq"
    /\ n.items # <<>>
    /\ \A e \in ItemsOf(n) : ValidElement(e)
    /\ NoSurrogateSpan(n)

\* C25: a list given as `on` resolves to the union of what its elements resolve to
\* when each is the `on` alone, and a list given as `except` excludes the union of
\* what its elements exclude alone, for the elements string literal, character
\* range, numeric range and the keyword `alphabet`.  It fails for `alphabet` in an
\* `on` list, which is read as the string of its letters.
C25_ListIsTheUnionOfItsElements ==
    (HasLoaded /\ ~src.raw.dfa /\ ValidAlphabet) =>
        /\ ListOfElements(FirstOn) =>
              /\ pc # "error"
              /\ \A e \in ItemsOf(FirstOn) : AloneLoads(e)
              /\ FiresOn = UNION {AloneFires(e) : e \in ItemsOf(FirstOn)}
        /\ (/\ FirstOn.node = "map"
            /\ DOMAIN FirstOn.fields = {"except"}
            /\ ListOfElements(FirstOn.fields["except"])) =>
              /\ pc # "error"
              /\ \A e \in ItemsOf(FirstOn.fields["except"]) : AloneLoads(ExceptNode(e))
              /\ DeclaredAlphabet \ FiresOn
                    = UNION {DeclaredAlphabet \ AloneFires(ExceptNode(e)) :
                               e \in ItemsOf(FirstOn.fields["except"])}

-----------------------------------------------------------------------------
(* Claims about the ranges.  The ranges of a document are read off its     *)
(* nodes.                                                                  *)

\* the ways to cut s at a `..`
CutsOf(s) == {i \in 0..(Len(s) - 2) : s[i + 1] = 46 /\ s[i + 2] = 46}
StartOf(s, i) == SubSeq(s, 1, i)
EndOf(s, i) == SubSeq(s, i + 3, Len(s))

\* a character range with an empty endpoint or its start after its end
BadCRange(s) ==
    \E i \in CutsOf(s) :
        \/ StartOf(s, i) = <<>>
        \/ EndOf(s, i) = <<>>
        \/ StartOf(s, i)[1] > EndOf(s, i)[1]

\* the number written by one or two digits
NumberOf(d) == IF Len(d) = 1 THEN d[1] - 48 ELSE (d[1] - 48) * 10 + (d[2] - 48)
IsNumber(d) == Len(d) \in 1..2 /\ \A k \in 1..Len(d) : d[k] \in 48..57

\* a numeric range that is reversed or has an endpoint above 9
BadNRange(s) ==
    \E i \in CutsOf(s) :
        /\ IsNumber(StartOf(s, i))
        /\ IsNumber(EndOf(s, i))
        /\ \/ NumberOf(StartOf(s, i)) > NumberOf(EndOf(s, i))
           \/ NumberOf(StartOf(s, i)) > 9
           \/ NumberOf(EndOf(s, i)) > 9

\* the range record n holds such a range
BadRangeNode(n) ==
    /\ n.node = "map"
    /\ \/ /\ "crange" \in DOMAIN n.fields
          /\ n.fields["crange"].node = "str"
          /\ BadCRange(n.fields["crange"].s)
       \/ /\ "nrange" \in DOMAIN n.fields
          /\ n.fields["nrange"].node = "str"
          /\ BadNRange(n.fields["nrange"].s)

\* the elements of a value: of the list, of the exclusion, or the value itself
ElementsOf(n) ==
    IF n.node = "seq" THEN ItemsOf(n)
    ELSE IF n.node = "map" /\ DOMAIN n.fields = {"except"}
         THEN (IF n.fields["except"].node = "seq"
               THEN ItemsOf(n.fields["except"]) ELSE {n.fields["except"]})
         ELSE {n}

\* the alphabet entries, triggers and except values of the document
DocumentElements ==
    {src.raw.alphabet[i] : i \in 1..Len(src.raw.alphabet)}
    \cup UNION {ElementsOf(src.raw.transitions[KeyP][i].on) :
                  i \in 1..Len(src.raw.transitions[KeyP])}

\* a record of well-formed ranges, and nothing else
ValidRangeNode(n) == n.node = "map" /\ DOMAIN n.fields # {} /\ ValidRanges(n.fields)

\* C26: a document with a character range that is reversed or has an empty endpoint,
\* or a numeric range that is reversed or leaves 0..9, in an alphabet entry, a
\* trigger or an except value, fails to load with an error and no automaton; a
\* well-formed range loads and contributes exactly the characters from its start to
\* its end, as a trigger and as an alphabet entry.  It fails for a well-formed range
\* that spans the surrogates, where the load panics.
C26_RangesAreCheckedAndInclusive ==
    HasLoaded =>
        /\ (\E n \in DocumentElements : BadRangeNode(n)) =>
              /\ pc = "error"
              /\ IsSome(error)
              /\ dfa = NoDfa /\ nfa = NoNfa /\ ran = None
        /\ (~src.raw.dfa /\ ValidAlphabet /\ ValidRangeNode(FirstOn)) =>
              /\ pc # "error"
              /\ alphabet = SortedSeq(DeclaredAlphabet)
              /\ EdgesPQ(nfa) = Denoted(FirstOn)
        /\ (~src.raw.dfa /\ ValidAlphabet /\ FirstOn = NStr(<<97>>)) =>
              /\ pc # "error"
              /\ alphabet = SortedSeq(DeclaredAlphabet)
        /\ (src.raw.dfa /\ ValidAlphabet /\ ValidRangeNode(FirstOn) /\ pc = "done") =>
              /\ {pr[1] : pr \in dfa.alphabet} = DeclaredAlphabet
              /\ FiresOn = Denoted(FirstOn)

-----------------------------------------------------------------------------
(* Claims about the subset construction as a computation.                  *)

\* to_dfa has returned for the NFA it was called on
Converted == pc = "done" /\ nfa # NoNfa

\* a second run of to_dfa on the same NFA and alphabet: its containers when the
\* worklist has drained, and the Dfa it returns
SecondRun ==
    ToDfaLoop(nfa, alphabet,
              [dfa_states |-> MapInsert(EmptyMap, StartNfaSet(nfa), 0),
               worklist |-> <<StartNfaSet(nfa)>>,
               dfa_transitions |-> EmptyMap])
SecondDfa == ToDfa(nfa, CharsOf(alphabet))

EpsilonClosed(n, S) ==
    \A k \in DOMAIN n.transitions : (k[1] \in S /\ k[2] = None) => n.transitions[k] \subseteq S

\* the call has returned: to_dfa with an empty worklist and a Dfa of at least one
\* state, epsilon_closure with an empty stack and a closed set that holds `states`
HasReturned ==
    /\ pc = "done"
    /\ worklist = <<>>
    /\ closure_worklist = <<>>
    /\ src.kind = "nfa" => Len(dfa.accept_states) >= 1
    /\ src.kind = "closure" => (src.states \subseteq closure /\ EpsilonClosed(nfa, closure))

\* C28: to_dfa and epsilon_closure terminate on every NFA, epsilon-cycles and
\* self-loops included: in every run the worklist is eventually empty and the call
\* returns.
C28_ToDfaAndClosureTerminate == <>HasReturned

\* an epsilon-cycle through all the states, and a state with an epsilon-edge to
\* itself
HasEpsilonCycle(n) ==
    /\ <<0, None>> \in DOMAIN n.transitions /\ 1 \in n.transitions[<<0, None>>]
    /\ <<1, None>> \in DOMAIN n.transitions /\ 2 \in n.transitions[<<1, None>>]
    /\ <<2, None>> \in DOMAIN n.transitions /\ 0 \in n.transitions[<<2, None>>]
    /\ 0 \in n.transitions[<<0, None>>]

\* C28 witness: to_dfa has returned on an NFA with an epsilon-cycle through its
\* three states and an epsilon self-loop
C28_Witness ==
    /\ HasReturned
    /\ src.kind = "nfa"
    /\ HasEpsilonCycle(nfa)
    /\ {0, 1, 2} \in DOMAIN dfa_states

\* the subsets registered so far, and how many of them have been popped
Registered == DOMAIN dfa_states
NumRegistered == Cardinality(Registered)
NumExpanded == NumRegistered - Len(worklist)

\* the indices are 0, 1, ... with one subset each, and the worklist holds the
\* subsets not yet popped, each once, in the order of their indices
QueueInOrder ==
    /\ \A S, T \in Registered : dfa_states[S] = dfa_states[T] => S = T
    /\ {dfa_states[S] : S \in Registered} = 0..(NumRegistered - 1)
    /\ Len(worklist) <= NumRegistered
    /\ worklist = [i \in 1..Len(worklist) |->
                     CHOOSE S \in Registered : dfa_states[S] = NumExpanded + i - 1]

\* the subset that the head of the worklist reaches on the j-th symbol, and the
\* first symbol on which it reaches S
Target(j) == EpsilonClosure(nfa, MoveOnChar(nfa, Head(worklist), alphabet[j]))
FirstSymbol(S) == Min({j \in 1..Len(alphabet) : Target(j) = S})

\* the subsets the head of the worklist reaches that are not registered
Discovered == {Target(j) : j \in 1..Len(alphabet)} \ ({{}} \cup Registered)

\* one turn of the worklist loop: the head is popped, the subsets it discovers get
\* the indices that follow, in the order of the symbols, and join the back of the
\* worklist in that order; every transition of the head is recorded
ExpandsInOrder ==
    /\ \A S \in Registered : S \in DOMAIN dfa_states' /\ dfa_states'[S] = dfa_states[S]
    /\ DOMAIN dfa_states' = Registered \cup Discovered
    /\ \A S \in Discovered :
          dfa_states'[S] = NumRegistered
                           + Cardinality({T \in Discovered : FirstSymbol(T) < FirstSymbol(S)})
    /\ worklist' = Tail(worklist)
                   \o [i \in 1..Cardinality(Discovered) |->
                         CHOOSE S \in Discovered : dfa_states'[S] = NumRegistered + i - 1]
    /\ \A j \in 1..Len(alphabet) :
          IF Target(j) = {}
          THEN <<dfa_states[Head(worklist)], j - 1>> \notin DOMAIN dfa_transitions'
          ELSE dfa_transitions'[<<dfa_states[Head(worklist)], j - 1>>] = dfa_states'[Target(j)]

\* C29: in to_dfa a subset met for the first time gets the number of subsets
\* registered so far as its index and is enqueued then; every registered subset is
\* in the worklist once until it is popped, subsets are popped in the order of
\* their indices, and the alphabet is visited in ascending order for each.
C29_SubsetsAreIndexedAndExpandedInOrder ==
    [][/\ (pc = "worklist" /\ worklist # <<>>) => ExpandsInOrder
       /\ (pc' = "worklist") => QueueInOrder']_vars

\* C29 witness: the start subset has been popped and has discovered two subsets,
\* which wait in the worklist with the indices 1 and 2
C29_Witness ==
    /\ pc = "worklist"
    /\ NumRegistered = 3
    /\ Len(worklist) = 2
    /\ dfa_states[worklist[1]] = 1
    /\ dfa_states[worklist[2]] = 2
    /\ QueueInOrder

\* the subset S holds an accepting state of the NFA
HoldsAccepting(S) == \E q \in S : q \in nfa.nfa_accept_states

\* the returned Dfa has the dead state, after the states of the subsets
HasDeadState == Len(dfa.accept_states) = NumRegistered + 1

\* C30: in the Dfa that to_dfa returns the state of a subset S accepts exactly when
\* S holds an accepting NFA state, accept_states and state_properties agree on
\* every index, and the FAILURE state accepts in neither.
C30_AcceptingIffSubsetHoldsAccepting ==
    Converted =>
        /\ Len(dfa.accept_states) \in {NumRegistered, NumRegistered + 1}
        /\ Len(dfa.state_properties) = Len(dfa.accept_states)
        /\ \A S \in Registered : dfa.accept_states[dfa_states[S] + 1] = HoldsAccepting(S)
        /\ \A i \in 1..Len(dfa.accept_states) :
              dfa.accept_states[i] = dfa.state_properties[i].accept
        /\ HasDeadState =>
              /\ ~dfa.accept_states[NumRegistered + 1]
              /\ ~dfa.state_properties[NumRegistered + 1].accept
              /\ dfa.state_properties[NumRegistered + 1].label = Some(FAILURE)

\* C30 witness: to_dfa has returned a Dfa with the dead state and with an accepting
\* state whose subset holds an accepting and a non-accepting NFA state
C30_Witness ==
    /\ Converted
    /\ HasDeadState
    /\ \E S \in Registered :
          /\ HoldsAccepting(S)
          /\ \E q \in S : q \notin nfa.nfa_accept_states
          /\ dfa.accept_states[dfa_states[S] + 1]
          /\ dfa.state_properties[dfa_states[S] + 1].accept

-----------------------------------------------------------------------------
(* Claims about epsilon_closure and expr_to_nfa.                           *)

\* epsilon_closure has returned `closure` for the set src.states
ClosureReturned == src.kind = "closure" /\ pc = "done"

\* C31: epsilon_closure(S) is the least set that holds S and is closed under the
\* epsilon-edges: it holds S, it is closed, it is inside every closed set that
\* holds S, its own closure is itself, and the closure of the empty set is empty.
C31_ClosureIsTheLeastClosedSet ==
    ClosureReturned =>
        /\ src.states \subseteq closure
        /\ EpsilonClosed(nfa, closure)
        /\ \A T \in SUBSET NfaStateIds :
              (src.states \subseteq T /\ EpsilonClosed(nfa, T)) => closure \subseteq T
        /\ closure = EpsilonClosure(nfa, src.states)
        /\ EpsilonClosure(nfa, closure) = closure
        /\ src.states = {} => closure = {}

\* C31 witness: the closure of {0} has been returned and holds all three states,
\* the last one reached through the second
C31_Witness ==
    /\ ClosureReturned
    /\ src.states = {0}
    /\ closure = {0, 1, 2}
    /\ <<0, None>> \in DOMAIN nfa.transitions /\ nfa.transitions[<<0, None>>] = {1}
    /\ EpsilonClosure(nfa, closure) = closure

\* the number of states that Thompson's construction makes for e
RECURSIVE ThompsonStates(_)
ThompsonStates(e) ==
    IF e.tag \in {"Epsilon", "Literal"} THEN 2
    ELSE IF e.tag = "Concat" THEN ThompsonStates(e.l) + ThompsonStates(e.r)
    ELSE IF e.tag = "Alternate" THEN 2 + ThompsonStates(e.l) + ThompsonStates(e.r)
    ELSE 2 + ThompsonStates(e.e)

\* the start and the end state of the fragment of e whose first fresh state is base
RECURSIVE ThompsonStart(_, _)
ThompsonStart(e, base) ==
    IF e.tag = "Concat" THEN ThompsonStart(e.l, base) ELSE base

RECURSIVE ThompsonEnd(_, _)
ThompsonEnd(e, base) ==
    IF e.tag = "Concat" THEN ThompsonEnd(e.r, base + ThompsonStates(e.l)) ELSE base + 1

\* the edges <<from, on, to>> of Thompson's construction for e, the fresh states
\* numbered from base in the order of the construction
RECURSIVE ThompsonEdges(_, _)
ThompsonEdges(e, base) ==
    IF e.tag = "Epsilon" THEN {<<base, None, base + 1>>}
    ELSE IF e.tag = "Literal" THEN {<<base, Some(e.c), base + 1>>}
    ELSE IF e.tag = "Concat" THEN
        LET rbase == base + ThompsonStates(e.l)
        IN ThompsonEdges(e.l, base) \cup ThompsonEdges(e.r, rbase)
           \cup {<<ThompsonEnd(e.l, base), None, ThompsonStart(e.r, rbase)>>}
    ELSE IF e.tag = "Alternate" THEN
        LET lbase == base + 2
            rbase == lbase + ThompsonStates(e.l)
        IN ThompsonEdges(e.l, lbase) \cup ThompsonEdges(e.r, rbase)
           \cup {<<base, None, ThompsonStart(e.l, lbase)>>,
                 <<base, None, ThompsonStart(e.r, rbase)>>,
                 <<ThompsonEnd(e.l, lbase), None, base + 1>>,
                 <<ThompsonEnd(e.r, rbase), None, base + 1>>}
    ELSE
        LET ibase == base + 2
        IN ThompsonEdges(e.e, ibase)
           \cup {<<base, None, base + 1>>,
                 <<base, None, ThompsonStart(e.e, ibase)>>,
                 <<ThompsonEnd(e.e, ibase), None, base + 1>>,
                 <<ThompsonEnd(e.e, ibase), None, ThompsonStart(e.e, ibase)>>}

\* the number of add_transition calls of the construction for e
RECURSIVE ThompsonEdgeCount(_)
ThompsonEdgeCount(e) ==
    IF e.tag \in {"Epsilon", "Literal"} THEN 1
    ELSE IF e.tag = "Concat" THEN ThompsonEdgeCount(e.l) + ThompsonEdgeCount(e.r) + 1
    ELSE IF e.tag = "Alternate" THEN ThompsonEdgeCount(e.l) + ThompsonEdgeCount(e.r) + 4
    ELSE ThompsonEdgeCount(e.e) + 4

\* the edges <<from, on, to>> of the NFA n
EdgesOfNfa(n) ==
    UNION {{<<key[1], key[2], to>> : to \in n.transitions[key]} : key \in DOMAIN n.transitions}

\* the key "q<i>" for i below 100 ('q' is 113, '0' is 48)
QKey(i) == IF i < 10 THEN <<113, 48 + i>> ELSE <<113, 48 + (i \div 10), 48 + (i % 10)>>

\* from_regex has built the NFA of the tree src.expr
RegexNfaBuilt == src.kind = "regex" /\ pc \in {"worklist", "done"}

\* C32: the NFA that from_regex builds from an expression tree has exactly the
\* edges of Thompson's construction (one edge for Epsilon and for Literal, one
\* joining epsilon-edge for Concat, four epsilon-edges around a fresh pair for
\* Alternate and for Star), exactly one accepting state, and as states exactly
\* the indices below the state counter, keyed q0, q1, ...
C32_ExprToNfaIsThompson ==
    RegexNfaBuilt =>
        LET count == ThompsonStates(src.expr)
            edges == EdgesOfNfa(nfa)
        IN /\ edges = ThompsonEdges(src.expr, 0)
           /\ Cardinality(edges) = ThompsonEdgeCount(src.expr)
           /\ nfa.start_state = ThompsonStart(src.expr, 0)
           /\ nfa.nfa_accept_states = {ThompsonEnd(src.expr, 0)}
           /\ Cardinality(nfa.nfa_accept_states) = 1
           /\ nfa.nfa_state_keys = {<<QKey(i), i>> : i \in 0..(count - 1)}
           /\ {edge[1] : edge \in edges} \cup {edge[3] : edge \in edges} = 0..(count - 1)

\* C32 witness: the tree of `a?b+`, which has every variant, has been built: the
\* Alternate's start 0 leads to both branches and the Star's end 9 accepts
C32_Witness ==
    /\ RegexNfaBuilt
    /\ src.expr = Concat(Alternate(LitA, Epsilon), Concat(LitB, Star(LitB)))
    /\ nfa.transitions[<<0, None>>] = {2, 4}
    /\ nfa.transitions[<<8, None>>] = {9, 10}
    /\ nfa.transitions[<<11, None>>] = {9, 10}
    /\ nfa.nfa_accept_states = {9}
    /\ <<QKey(11), 11>> \in nfa.nfa_state_keys

-----------------------------------------------------------------------------
(* Claims about rules that overlap and rules outside the alphabet.         *)

\* the <<source key, character, destination key>> that two rules of the source,
\* at different places of its list, cover with the same destination
Duplicated(y) ==
    {d \in (DOMAIN y.transitions) \X DeclaredChars(y) \X (DOMAIN y.states) :
        \E i \in 1..Len(y.transitions[d[1]]), j \in 1..Len(y.transitions[d[1]]) :
            /\ i # j
            /\ RuleCovers(y, y.transitions[d[1]][i].on, d[2])
            /\ RuleCovers(y, y.transitions[d[1]][j].on, d[2])
            /\ y.transitions[d[1]][i].to = d[3]
            /\ y.transitions[d[1]][j].to = d[3]}

\* no rule of y covers a character outside the declared alphabet
NoForeignTrigger(y) ==
    \A p \in RulePairs(y), c \in InputChars \ DeclaredChars(y) : ~RuleCovers(y, p[2].on, c)

\* C33: in DFA mode two rules of one source state that cover one alphabet
\* character with the same destination are not an error: the load is never
\* refused as ambiguous because of them, a spec with no other fault loads, and
\* the table entry of the pair is that destination.
C33_SameDestinationTwiceIsNoError ==
    (DfaMode /\ pc # "start" /\ Duplicated(src.yaml) # {}) =>
        LET y == src.yaml
            size == Cardinality(DeclaredChars(y))
        IN /\ ~Ambiguous(y) => error # Some("AmbiguousTransition")
           /\ (/\ KeysKnown(y) /\ EpsilonRules(y) = {} /\ NoForeignTrigger(y)
               /\ ~Ambiguous(y) /\ Holes(y) = {})
                 => /\ pc = "done" /\ error = None /\ dfa # NoDfa
                    /\ \A d \in Duplicated(y) :
                          dfa.transition_table[KeyIndex(y, d[1]) * size + CharIndex(y, d[2]) + 1]
                             = KeyIndex(y, d[3])

\* C33 witness: a DFA has been loaded from a spec whose state p goes to q on `a`
\* and again to q on the whole alphabet
C33_Witness ==
    /\ DfaMode
    /\ pc = "done"
    /\ dfa # NoDfa
    /\ KeyP \in DOMAIN src.yaml.transitions
    /\ src.yaml.transitions[KeyP]
          = <<[to |-> KeyQ, on |-> OnSingle(SpecLiteral(<<97>>))], [to |-> KeyQ, on |-> OnAlphabet]>>
    /\ <<KeyP, 97, KeyQ>> \in Duplicated(src.yaml)
    /\ dfa.transition_table[1] = 1

\* the <<source key, rule, character>> of y whose rule covers the character,
\* which is outside the declared alphabet
ForeignEdges(y) ==
    {f \in RulePairs(y) \X (InputChars \ DeclaredChars(y)) : RuleCovers(y, f[1][2].on, f[2])}

\* the NFA n without the edges on characters outside the set chars
WithoutForeign(n, chars) ==
    [n EXCEPT !.transitions =
        [key \in {k \in DOMAIN n.transitions : k[2] = None \/ Unwrap(k[2]) \in chars}
            |-> n.transitions[key]]]

\* C34: in NFA mode a rule whose trigger holds a character outside the declared
\* alphabet is not an error: the load succeeds and the NFA keeps the edge, the
\* alphabet of the DFA is the declared alphabet, the DFA is the one of the same
\* NFA without that edge, and run rejects every input that holds the character.
C34_NfaModeIgnoresForeignTrigger ==
    (NfaMode /\ pc # "start" /\ KeysKnown(src.yaml) /\ ForeignEdges(src.yaml) # {}) =>
        LET y == src.yaml
        IN /\ pc # "error" /\ error = None
           /\ \A f \in ForeignEdges(y) :
                 /\ <<KeyIndex(y, f[1][1]), Some(f[2])>> \in DOMAIN nfa.transitions
                 /\ KeyIndex(y, f[1][2].to)
                       \in nfa.transitions[<<KeyIndex(y, f[1][1]), Some(f[2])>>]
           /\ pc = "done" =>
                 /\ dfa.alphabet = {<<c, CharIndex(y, c)>> : c \in DeclaredChars(y)}
                 /\ dfa = ToDfa(WithoutForeign(nfa, DeclaredChars(y)), DeclaredChars(y))
           /\ \A f \in ForeignEdges(y) :
                 (IsSome(ran) /\ f[2] \in CharsOf(Unwrap(ran).input))
                    => Unwrap(ran).result = Returned(FALSE)

\* C34 witness: an NFA-mode spec whose state p goes to the accepting q on `c`
\* alone, outside the alphabet, has been determinized, and run has rejected `c`
C34_Witness ==
    /\ NfaMode
    /\ pc = "done"
    /\ KeyP \in DOMAIN src.yaml.transitions
    /\ src.yaml.transitions[KeyP] = <<[to |-> KeyQ, on |-> OnSingle(SpecLiteral(<<99>>))]>>
    /\ <<0, Some(99)>> \in DOMAIN nfa.transitions
    /\ nfa.transitions[<<0, Some(99)>>] = {1}
    /\ AlphabetOf(dfa) = {97, 98}
    /\ ran = Some([input |-> <<99>>, result |-> Returned(FALSE)])

-----------------------------------------------------------------------------
(* Claims about the states that to_dfa makes.                              *)

\* the states of the NFA n that some path of edges reaches from the set seen
RECURSIVE NfaReach(_, _)
NfaReach(n, seen) ==
    LET next == seen \cup UNION {n.transitions[key] :
                                   key \in {k \in DOMAIN n.transitions : k[1] \in seen}}
    IN IF next = seen THEN seen ELSE NfaReach(n, next)

\* the states of the DFA d that some string over its alphabet reaches from seen
RECURSIVE DfaReach(_, _)
DfaReach(d, seen) ==
    LET next == seen \cup {TableAt(d, q, a) : q \in seen, a \in 0..(BiLen(d.alphabet) - 1)}
    IN IF next = seen THEN seen ELSE DfaReach(d, next)

\* C35: every state of a DFA made by to_dfa, the FAILURE state included, is
\* reached from the start state by some string over the alphabet, and no subset
\* holds an NFA state that no path reaches from the NFA's start state.
C35_EveryDfaStateIsReachable ==
    /\ pc \in {"worklist", "done"} =>
          \A S \in DOMAIN dfa_states : S \subseteq NfaReach(nfa, {nfa.start_state})
    /\ pc = "done" =>
          /\ DfaReach(dfa, {dfa.start_state_idx}) = 0..(Len(dfa.accept_states) - 1)
          /\ IsSome(FailureIdx(dfa)) =>
                Unwrap(FailureIdx(dfa)) \in DfaReach(dfa, {dfa.start_state_idx})

\* C35 witness: a DFA with two subsets and the FAILURE state, made from an NFA
\* with a state that has an edge but that no path reaches from the start
C35_Witness ==
    /\ pc = "done"
    /\ src.kind = "nfa"
    /\ NumRegistered = 2
    /\ IsSome(FailureIdx(dfa))
    /\ Unwrap(FailureIdx(dfa)) = 2
    /\ DfaReach(dfa, {dfa.start_state_idx}) = 0..2
    /\ \E q \in NfaStateIds \ NfaReach(nfa, {nfa.start_state}) :
          \E key \in DOMAIN nfa.transitions : key[1] = q

\* the map `states` from subsets to indices is well formed for the NFA n: every
\* subset is non-empty and closed under the epsilon-edges, different subsets
\* have different indices, and the indices are 0 .. (number of subsets - 1)
WellIndexed(n, states) ==
    /\ {} \notin DOMAIN states
    /\ \A S \in DOMAIN states : S # {} /\ EpsilonClosed(n, S)
    /\ \A S \in DOMAIN states, T \in DOMAIN states : S # T => states[S] # states[T]
    /\ {states[S] : S \in DOMAIN states} = 0..(Cardinality(DOMAIN states) - 1)

\* dfa_states after the first k symbols of the alphabet have been handled for
\* the subset at the head of the worklist
StatesAfterSymbols(k) ==
    ExpandSymbols(nfa, SubSeq(alphabet, 1, k), Head(worklist), dfa_states[Head(worklist)], 1,
                  [dfa_states |-> dfa_states,
                   worklist |-> Tail(worklist),
                   dfa_transitions |-> dfa_transitions]).dfa_states

\* C36: at every point of to_dfa, between two subsets taken from the worklist
\* and between two symbols handled for one subset, every registered subset is
\* non-empty and closed under the epsilon-edges, different subsets have
\* different indices, the indices in use are 0 .. (number of subsets - 1), and
\* the empty subset is not registered.
C36_RegisteredSubsetsAreWellIndexed ==
    pc \in {"worklist", "done"} =>
        /\ WellIndexed(nfa, dfa_states)
        /\ (pc = "worklist" /\ worklist # <<>>) =>
              \A k \in 0..Len(alphabet) : WellIndexed(nfa, StatesAfterSymbols(k))

\* C36 witness: the loop stands between two subsets with three registered, one
\* of them with two states, and the first symbol of the next subset, whose
\* other symbol has the empty target, registers a fourth
C36_Witness ==
    /\ pc = "worklist"
    /\ src.kind = "nfa"
    /\ worklist # <<>>
    /\ NumRegistered = 3
    /\ \E S \in Registered : Cardinality(S) = 2
    /\ Cardinality(DOMAIN StatesAfterSymbols(1)) = 4
    /\ MoveOnChar(nfa, Head(worklist), alphabet[2]) = {}

-----------------------------------------------------------------------------
(* Claims about the path of `reload` and the alphabet of from_regex.       *)

\* the step is a command of the loop that reads no line to run and leaves the
\* loop running: `reload` or `load <path>`, told apart by cmd'.kind
LoadingStep == pc = "repl" /\ pc' = "repl" /\ files' = files

\* C37: in the interactive loop the path of `reload` is set by the start from
\* --file and by a `load <path>` that succeeds, and by nothing else: a failed
\* load leaves it as it was, `reload` reads the file at that path and keeps the
\* path, and with no path, which is the start from --regex with no successful
\* load since, `reload` reads nothing and leaves the automaton as it was.
C37_ReloadPathFollowsSuccessfulLoads ==
    [][/\ current_path' # current_path =>
             \/ /\ pc = "args" /\ src.kind = "file"
                /\ current_path' = Some(src.path)
                /\ LoadFsm(files, src.path).ok
             \/ /\ LoadingStep /\ cmd'.kind = "load" /\ cmd'.ok
                /\ IsSome(current_path')
                /\ LoadFsm(files, Unwrap(current_path')).ok
       /\ (LoadingStep /\ cmd'.kind = "load") =>
             /\ cmd'.ok => /\ IsSome(current_path')
                           /\ installed' = Some(files[Unwrap(current_path')])
             /\ ~cmd'.ok => current_path' = current_path /\ installed' = installed
       /\ (LoadingStep /\ cmd'.kind = "reload") =>
             /\ current_path' = current_path
             /\ IsSome(current_path) =>
                   /\ cmd'.ok = LoadFsm(files, Unwrap(current_path)).ok
                   /\ cmd'.ok => /\ installed' = Some(files[Unwrap(current_path)])
                                 /\ dfa' = DfaOfContent[files[Unwrap(current_path)]]
                   /\ ~cmd'.ok => dfa' = dfa /\ installed' = installed
             /\ ~IsSome(current_path) =>
                   /\ src.kind = "regex"
                   /\ ~cmd'.ok
                   /\ dfa' = dfa /\ installed' = installed
                   /\ dfa' = FromRegexTree(src.expr)]_vars

\* C37 witness: started from the file f, a `load g` has just failed because g is
\* missing, and the path of `reload` is still f, whose automaton is active
C37_Witness ==
    /\ pc = "repl"
    /\ src.kind = "file"
    /\ src.path = "f"
    /\ cmd = [kind |-> "load", ok |-> FALSE]
    /\ files["g"] = FileMissing
    /\ error = Some("Io")
    /\ current_path = Some("f")
    /\ installed = Some(files["f"])
    /\ IsSome(ran)

\* from_regex has returned the automaton of the tree src.expr
RegexDfaBuilt == src.kind = "regex" /\ pc = "done"

\* C38: the alphabet of the DFA built by from_regex is the set of the literal
\* characters of the expression, indexed in ascending order of the characters,
\* and run rejects every input that holds a character that is no literal of it.
C38_RegexAlphabetIsTheLiterals ==
    RegexDfaBuilt =>
        LET literals == LiteralsOf(src.expr)
        IN /\ alphabet = SortedSeq(literals)
           /\ dfa.alphabet = {<<c, Cardinality({d \in literals : d < c})>> : c \in literals}
           /\ (IsSome(ran) /\ ~(CharsOf(Unwrap(ran).input) \subseteq literals))
                 => Unwrap(ran).result = Returned(FALSE)

\* C38 witness: the DFA of `ba` has a at index 0 and b at index 1, and run has
\* rejected `bac`, whose prefix `ba` is accepted
C38_Witness ==
    /\ RegexDfaBuilt
    /\ src.expr = Concat(LitB, LitA)
    /\ dfa.alphabet = {<<97, 0>>, <<98, 1>>}
    /\ ran = Some([input |-> <<98, 97, 99>>, result |-> Returned(FALSE)])
    /\ Run(dfa, <<98, 97>>) = Returned(TRUE)

=============================================================================
